---- MODULE Spec2Model ----
(***************************************************************************)
(* Model of the synchronisation and conflict-resolution core of            *)
(* markus-the-editor: the conflict parser (src/lib/fileTypes.ts), the Git  *)
(* IPC handlers of the main process (electron/git handlers) and the        *)
(* renderer callbacks that drive them (src/App.tsx, FolderPanel.tsx).      *)
(*                                                                         *)
(* A text is modelled as the non-empty sequence of its lines, which is     *)
(* what String.split('\n') returns: "" is <<"">>, "a\nb" is <<"a","b">>.   *)
(* Joining strings with '\n' is then concatenation of such sequences.      *)
(***************************************************************************)
EXTENDS Integers, Sequences, FiniteSets, TLC

\* ------------------------------------------------------------------------
\* Bounds
\* ------------------------------------------------------------------------
\* longest enumerated input text, in lines
MaxLen == 6
\* section ids offered to resolveSection range over 0..MaxId
MaxId == 2
\* the clock of the editor advances in steps of TickMs up to MaxTime (ms)
TickMs == 1000
MaxTime == 3000
\* timers setTimeout hands out in one run
MaxTimers == 3
\* longest text typed into one node of the document
MaxChars == 1

VARIABLES
  rawText,        \* conflict parser: the text handed to parseConflicts
  fileConflict,   \* conflict parser: <<>> or <<the current FileConflict>>
  rebuilt,        \* conflict parser: Null or the text rebuildFromConflicts returned
  lastCall        \* conflict parser: the library call made last and its outcome

parserVars == <<rawText, fileConflict, rebuilt, lastCall>>

VARIABLES
  currentFilePath, \* main process: the ambient current file path, NoPath for null
  newTabSent,      \* main -> renderer: a 'file:new' message is in flight
  file,            \* the text of the tracked file on disk
  pullH,           \* main process: the git:pullWithConflictDetection invocation
  pushH,           \* main process: the git:pushWithConflictHandling invocation
  tabFilePath,     \* renderer: filePath of the active tab, NoPath for null
  tabContent,      \* renderer: content of the active tab
  isGitRepo,       \* renderer: App state isGitRepo
  behindCount,     \* renderer: App state behindCount
  isPulling,       \* renderer: App state isPulling
  pullPc,          \* renderer: position of handlePull
  activeConflict,  \* renderer: App state activeConflict, <<>> for null
  dialog,          \* renderer: the message box handlePull is showing, "" for none
  pollPc,          \* renderer: position of checkForUpdates
  isPushing,       \* renderer: FolderPanel state isPushing
  pushPc,          \* renderer: position of FolderPanel handlePush
  gitError,        \* renderer: FolderPanel state gitError, "" for null
  gitStatus        \* renderer: FolderPanel state gitStatus, "" for null

VARIABLES
  otherFile,       \* the text on disk of a second file of the same folder
  writeH,          \* main process: the git:writeResolution invocation
  abortH,          \* main process: the git:abortMerge invocation
  readH,           \* main process: the git:readCurrentFile invocation
  resolvePc,       \* renderer: position of handleConflictResolved
  cancelPc,        \* renderer: position of handleConflictCancel
  resolver         \* renderer: ConflictResolver state conflict, <<>> when unmounted

VARIABLES
  now,             \* Date.now(), in ms
  toast,           \* lib/toast.ts: currentState, hideTimeout (0 for null), the timers
                   \* armed in the event loop, the last timer id, and a record of
                   \* the last showToast and of what has hidden the toast since
  doc,             \* editor: the top-level nodes of the document
  cursor,          \* editor: index of the node the text cursor is in
  pendingDeletion, \* deletion plugin state, <<>> for null
  lastBackspace    \* record of the last Backspace keypress: the deletable node it
                   \* was at (0 for none), when, and whether the cursor has moved
                   \* or the document has changed since

mainVars == <<currentFilePath, newTabSent, file, pullH, pushH>>
appVars == <<tabFilePath, tabContent, isGitRepo, behindCount, isPulling, pullPc,
             activeConflict, dialog, pollPc>>
panelVars == <<isPushing, pushPc, gitError, gitStatus>>
sessionVars == <<otherFile, writeH, abortH, readH, resolvePc, cancelPc, resolver>>
syncVars == <<mainVars, appVars, panelVars, sessionVars>>
editorVars == <<now, toast, doc, cursor, pendingDeletion, lastBackspace>>

VARIABLES
  tabs,            \* renderer: App state tabs, the open tabs in order
  activeTabId,     \* renderer: App state activeTabId
  disk,            \* the text on disk of each file the window can open
  opened,          \* main -> renderer: the 'file:opened' messages in flight
  saveH,           \* handleSave and the file:save / file:saveAs invocation it makes
  watch            \* fileWatcher module: watcher (0 for null), currentPath, the
                   \* watchers created and not closed, and the last watcher made

VARIABLES
  currentIndex,    \* ConflictResolver state currentIndex
  aiLoading,       \* ConflictResolver state aiLoading
  aiError,         \* ConflictResolver state aiError, "" for null
  showAiSettings,  \* ConflictResolver state showAiSettings
  aiSettings,      \* ConflictResolver state aiSettings, <<>> for null
  aiStore,         \* main process: the stored 'aiMerge' settings
  aiH,             \* handleAiMerge and the ai:merge invocation it makes
  setH             \* handleSaveAiSettings and its ai:setSettings invocation

deskVars == <<tabs, activeTabId, disk, opened, saveH, watch>>
mergeVars == <<currentIndex, aiLoading, aiError, showAiSettings, aiSettings,
               aiStore, aiH, setH>>
vars == <<parserVars, syncVars, editorVars, deskVars, mergeVars>>

\* ------------------------------------------------------------------------
\* Lines and texts
\* ------------------------------------------------------------------------
\* null of `resolvedContent: string | null`; no text is the empty sequence
Null == <<>>

StartLine == "<<<<<<< HEAD"
SepLine == "======="
EndLine == ">>>>>>> origin/main"

\* the lines input texts are made of
Lines == {"a", "b", StartLine, SepLine, EndLine}

\* line.startsWith(CONFLICT_START), CONFLICT_START = '<<<<<<< '
StartsWithConflictStart(line) == line \in {"<<<<<<< HEAD", "<<<<<<< LOCAL"}

\* line === CONFLICT_SEPARATOR
IsConflictSeparator(line) == line = "======="

\* line.startsWith(CONFLICT_END), CONFLICT_END = '>>>>>>> '
StartsWithConflictEnd(line) == line \in {">>>>>>> origin/main", ">>>>>>> REMOTE"}

\* Array.prototype.join('\n') of an array of single lines
JoinLines(ls) == IF ls = <<>> THEN <<"">> ELSE ls

RECURSIVE JoinParts(_)
\* Array.prototype.join('\n') of an array of texts
JoinParts(parts) ==
  IF parts = <<>> THEN <<"">>
  ELSE IF Len(parts) = 1 THEN parts[1]
  ELSE parts[1] \o JoinParts(Tail(parts))

\* ------------------------------------------------------------------------
\* parseConflicts
\* ------------------------------------------------------------------------
ParseInit ==
  [sections |-> <<>>, nonConflictingParts |-> <<>>, currentNonConflict |-> <<>>,
   inConflict |-> FALSE, inLocalPart |-> FALSE,
   localLines |-> <<>>, remoteLines |-> <<>>, conflictId |-> 0]

\* one iteration of `for (const line of lines)`
ParseLine(st, line) ==
  IF StartsWithConflictStart(line) THEN
    [st EXCEPT !.nonConflictingParts = Append(@, JoinLines(st.currentNonConflict)),
               !.currentNonConflict = <<>>,
               !.inConflict = TRUE,
               !.inLocalPart = TRUE,
               !.localLines = <<>>,
               !.remoteLines = <<>>]
  ELSE IF IsConflictSeparator(line) /\ st.inConflict THEN
    [st EXCEPT !.inLocalPart = FALSE]
  ELSE IF StartsWithConflictEnd(line) /\ st.inConflict THEN
    [st EXCEPT !.sections = Append(@, [id |-> st.conflictId,
                                       localContent |-> JoinLines(st.localLines),
                                       remoteContent |-> JoinLines(st.remoteLines),
                                       resolvedContent |-> Null]),
               !.conflictId = @ + 1,
               !.inConflict = FALSE]
  ELSE IF st.inConflict THEN
    IF st.inLocalPart
      THEN [st EXCEPT !.localLines = Append(@, line)]
      ELSE [st EXCEPT !.remoteLines = Append(@, line)]
  ELSE
    [st EXCEPT !.currentNonConflict = Append(@, line)]

RECURSIVE ParseLoop(_, _)
ParseLoop(st, lines) ==
  IF lines = <<>> THEN st ELSE ParseLoop(ParseLine(st, Head(lines)), Tail(lines))

\* the parser without the flush of the literal run after the last line
parseConflicts_DropsTail(content, filePath) ==
  LET st == ParseLoop(ParseInit, content)
  IN [filePath |-> filePath,
      sections |-> st.sections,
      isResolved |-> FALSE,
      nonConflictingParts |-> st.nonConflictingParts]

parseConflicts(content, filePath) ==
  LET st == ParseLoop(ParseInit, content)
  IN [filePath |-> filePath,
      sections |-> st.sections,
      isResolved |-> FALSE,
      nonConflictingParts |-> Append(st.nonConflictingParts,
                                     JoinLines(st.currentNonConflict))]

\* ------------------------------------------------------------------------
\* rebuildFromConflicts, allConflictsResolved, resolveSection
\* ------------------------------------------------------------------------
\* the template literal with the labels git wrote
ConflictBlock_GitLabels(section) ==
  <<"<<<<<<< HEAD">> \o section.localContent \o <<"=======">>
    \o section.remoteContent \o <<">>>>>>> origin/main">>

\* the template literal that re-emits an unresolved section
ConflictBlock(section) ==
  <<"<<<<<<< LOCAL">> \o section.localContent \o <<"=======">>
    \o section.remoteContent \o <<">>>>>>> REMOTE">>

RebuildPart(conflict, i) ==
  IF i <= Len(conflict.sections)
    THEN IF conflict.sections[i].resolvedContent # Null
           THEN <<conflict.nonConflictingParts[i], conflict.sections[i].resolvedContent>>
           ELSE <<conflict.nonConflictingParts[i], ConflictBlock(conflict.sections[i])>>
    ELSE <<conflict.nonConflictingParts[i]>>

RECURSIVE RebuildParts(_, _)
RebuildParts(conflict, i) ==
  IF i > Len(conflict.nonConflictingParts) THEN <<>>
  ELSE RebuildPart(conflict, i) \o RebuildParts(conflict, i + 1)

rebuildFromConflicts(conflict) == JoinParts(RebuildParts(conflict, 1))

allConflictsResolved(conflict) ==
  \A i \in 1..Len(conflict.sections) : conflict.sections[i].resolvedContent # Null

\* a resolveSection that keeps only the resolution made last
resolveSection_ClearsOthers(conflict, sectionId, resolvedContent) ==
  LET updatedSections ==
        [i \in 1..Len(conflict.sections) |->
           IF conflict.sections[i].id = sectionId
             THEN [conflict.sections[i] EXCEPT !.resolvedContent = resolvedContent]
             ELSE [conflict.sections[i] EXCEPT !.resolvedContent = Null]]
  IN [conflict EXCEPT !.sections = updatedSections,
                      !.isResolved = \A i \in 1..Len(updatedSections) :
                                        updatedSections[i].resolvedContent # Null]

\* a resolveSection that appends to the text a resolved section already has
resolveSection_Appends(conflict, sectionId, resolvedContent) ==
  LET updatedSections ==
        [i \in 1..Len(conflict.sections) |->
           IF conflict.sections[i].id = sectionId
             THEN [conflict.sections[i] EXCEPT
                     !.resolvedContent = IF @ = Null THEN resolvedContent
                                         ELSE @ \o resolvedContent]
             ELSE conflict.sections[i]]
  IN [conflict EXCEPT !.sections = updatedSections,
                      !.isResolved = \A i \in 1..Len(updatedSections) :
                                        updatedSections[i].resolvedContent # Null]

resolveSection(conflict, sectionId, resolvedContent) ==
  LET updatedSections ==
        [i \in 1..Len(conflict.sections) |->
           IF conflict.sections[i].id = sectionId
             THEN [conflict.sections[i] EXCEPT !.resolvedContent = resolvedContent]
             ELSE conflict.sections[i]]
  IN [conflict EXCEPT !.sections = updatedSections,
                      !.isResolved = \A i \in 1..Len(updatedSections) :
                                        updatedSections[i].resolvedContent # Null]

\* ------------------------------------------------------------------------
\* The conflict library driven on bounded inputs
\* ------------------------------------------------------------------------
TestPath == "/test/file.md"

\* the inputs of the parser tests: one block between literals, two blocks
SingleConflictText == <<"a", StartLine, "a", SepLine, "b", EndLine, "b">>
MultiConflictText ==
  <<"a", StartLine, "a", SepLine, "b", EndLine, "b",
    StartLine, "b", SepLine, "a", EndLine, "a">>
AdjacentConflictText ==
  <<StartLine, "a", SepLine, EndLine, StartLine, SepLine, "b", EndLine>>

Texts ==
  UNION {[1..n -> Lines] : n \in 1..MaxLen}
    \cup {SingleConflictText, MultiConflictText, AdjacentConflictText}

HasSection(c, sectionId) == \E i \in 1..Len(c.sections) : c.sections[i].id = sectionId

\* the resolvedContent of the section with that id, Null when there is none
ResolvedContentOf(c, sectionId) ==
  IF HasSection(c, sectionId)
    THEN c.sections[CHOOSE i \in 1..Len(c.sections) : c.sections[i].id = sectionId]
           .resolvedContent
    ELSE Null

\* handleKeepBoth: localContent + '\n\n' + remoteContent
KeepBoth(section) == section.localContent \o <<"">> \o section.remoteContent

\* the texts a caller resolves a section to
ResolutionTexts(c, sectionId) ==
  {<<"merged">>} \cup
  UNION {{c.sections[i].localContent, c.sections[i].remoteContent, KeepBoth(c.sections[i])} :
           i \in {j \in 1..Len(c.sections) : c.sections[j].id = sectionId}}

\* a library call as the driver made it: the arguments, the kind of value
\* returned, and for resolveSection what the section held before (`prev`)
\* and whether the call repeats the call before it (`again`)
LibCall(op, sectionId, text, result, prev, again) ==
  [op |-> op, sectionId |-> sectionId, text |-> text, result |-> result,
   prev |-> prev, again |-> again]

NoCall == LibCall("none", -1, Null, "none", Null, FALSE)

\* ------------------------------------------------------------------------
\* Git backend: error texts and their classification
\* ------------------------------------------------------------------------
NoPath == ""
DocPath == "/repo/doc.md"
OtherPath == "/repo/other.md"

E_NOFILE == "Error: No file open"
E_NET == "Error: fatal: unable to access 'https://host/repo.git/'"
E_REJECTED == "Error: ! [rejected] main -> main (fetch first)"
E_NFF == "Error: ! [rejected] main -> main (non-fast-forward): tip is behind"
E_PUSHREFS == "Error: failed to push some refs to 'host:me/conflict-notes.git'"
E_CONFLICT == "Error: CONFLICT (content): Merge conflict in doc.md"
E_UNMERGED == "Error: fatal: Exiting because of an unresolved conflict."
E_INDEX == "Error: fatal: Unable to create '.git/index.lock'"
E_NOSTASH == "Error: No stash entries found."
E_READ == "Error: ENOENT: no such file or directory"

\* the keywords of the handlers that occur in an error text
Keywords(msg) ==
  CASE msg = E_REJECTED -> {"rejected", "fetch first"}
    [] msg = E_NFF -> {"rejected", "non-fast-forward", "behind"}
    [] msg = E_PUSHREFS -> {"conflict"}
    [] msg = E_CONFLICT -> {"CONFLICT", "Merge conflict", "conflict"}
    [] msg = E_UNMERGED -> {"conflict"}
    [] OTHER -> {}

\* errorStr.includes(keyword)
Includes(msg, keyword) == keyword \in Keywords(msg)

\* content.includes(marker) for the marker strings of the handlers
ContentIncludes(content, marker) ==
  \E i \in 1..Len(content) :
    CASE marker \in {"<<<<<<<", "<<<<<<< "} -> StartsWithConflictStart(content[i])
      [] marker \in {">>>>>>>", ">>>>>>> "} -> StartsWithConflictEnd(content[i])
      [] marker = "=======" -> IsConflictSeparator(content[i])
      [] OTHER -> FALSE

\* the two-marker test of the push handler in place of the three-marker one
hasConflictMarkers_StartAndEnd(content) ==
  /\ ContentIncludes(content, "<<<<<<< ")
  /\ ContentIncludes(content, ">>>>>>> ")

hasConflictMarkers(content) ==
  /\ ContentIncludes(content, "<<<<<<< ")
  /\ ContentIncludes(content, "=======")
  /\ ContentIncludes(content, ">>>>>>> ")

\* what the working copy of the tracked file can hold
CleanText == <<"a">>
StartOnlyText == <<StartLine, "a">>
FileTexts == {CleanText, SingleConflictText, StartOnlyText}

PushOutcomes == {"ok", E_NET, E_REJECTED, E_NFF, E_PUSHREFS}
PullOutcomes == {"ok", E_NET, E_CONFLICT, E_UNMERGED}
StashOutcomes == {"ok", E_INDEX}
StashPopOutcomes == {"ok", E_CONFLICT, E_NOSTASH}
FetchOutcomes == {"ok", E_NET}
ReadOutcomes == {"ok", E_READ}
SimpleOutcomes == {"ok", E_INDEX}

\* a merge or a stash rewrites the working copy; a call that fails for
\* another reason leaves it alone
WorkingCopyAfter(out) == IF out \in {"ok", E_CONFLICT} THEN FileTexts ELSE {file}

\* the text on disk at a path
FileAt(path) == IF path = OtherPath THEN otherFile ELSE file

\* ------------------------------------------------------------------------
\* Main process: Git IPC handlers
\* ------------------------------------------------------------------------
NoResult == [success |-> FALSE, hasConflicts |-> FALSE, content |-> Null, error |-> ""]
\* an invocation: its position, the calls it has made, what it returned and
\* the filePath it read from getCurrentFilePath() on entry
IdleHandler == [pc |-> "idle", calls |-> <<>>, result |-> NoResult, path |-> NoPath]

\* a catch that reports the error with success: true
Failed_AsSuccess(error) ==
  [success |-> TRUE, hasConflicts |-> FALSE, content |-> <<>>, error |-> error]

\* { success: false, error: String(error), hasConflicts: false }
Failed(error) == [success |-> FALSE, hasConflicts |-> FALSE, content |-> Null, error |-> error]
\* { success: true, content, hasConflicts }
WithContent(content, hasConflicts) ==
  [success |-> TRUE, hasConflicts |-> hasConflicts, content |-> content, error |-> ""]
\* { success: true, hasConflicts: false }
Pushed == [success |-> TRUE, hasConflicts |-> FALSE, content |-> Null, error |-> ""]

\* the log of the backend and filesystem calls an invocation has made: the
\* call, how it settled, and for fs.readFile the text it returned
Called(h, call, out) ==
  Append(h.calls, [call |-> call, out |-> out,
                   content |-> IF call = "readFile" /\ out = "ok" THEN FileAt(h.path)
                               ELSE Null])
Return(h, calls, result) ==
  [pc |-> "done", calls |-> calls, result |-> result, path |-> h.path]

\* git:pullWithConflictDetection, entry: up to the first await
PullHandlerStart ==
  IF currentFilePath = NoPath
    THEN Return(IdleHandler, <<>>, Failed(E_NOFILE))
    ELSE [IdleHandler EXCEPT !.pc = "pull", !.path = currentFilePath]

\* a case-insensitive test in catch (pullError)
IsPullConflict_AnyCase(errorStr) ==
  Includes(errorStr, "CONFLICT") \/ Includes(errorStr, "conflict")

\* the test of catch (pullError)
IsPullConflict(errorStr) ==
  Includes(errorStr, "CONFLICT") \/ Includes(errorStr, "Merge conflict")

\* await git.pull() settles
PullHandlerPull ==
  /\ pullH.pc = "pull"
  /\ \E out \in PullOutcomes :
       /\ file' \in WorkingCopyAfter(out)
       /\ pullH' =
            IF out = "ok" THEN [pullH EXCEPT !.pc = "read", !.calls = Called(pullH, "pull", out)]
            ELSE IF IsPullConflict(out)
              THEN [pullH EXCEPT !.pc = "readConflict", !.calls = Called(pullH, "pull", out)]
            ELSE Return(pullH, Called(pullH, "pull", out), Failed(out))
  /\ UNCHANGED <<currentFilePath, newTabSent, pushH, appVars, panelVars>>
  /\ UNCHANGED sessionVars
  /\ UNCHANGED <<parserVars, editorVars, deskVars, mergeVars>>

\* await fs.readFile() after a successful pull settles
PullHandlerRead ==
  /\ pullH.pc = "read"
  /\ \E out \in ReadOutcomes :
       pullH' =
         IF out = "ok" THEN Return(pullH, Called(pullH, "readFile", out), WithContent(FileAt(pullH.path), FALSE))
         ELSE IF IsPullConflict(out)
           THEN [pullH EXCEPT !.pc = "readConflict", !.calls = Called(pullH, "readFile", out)]
         ELSE Return(pullH, Called(pullH, "readFile", out), Failed(out))
  /\ UNCHANGED <<currentFilePath, newTabSent, file, pushH, appVars, panelVars>>
  /\ UNCHANGED sessionVars
  /\ UNCHANGED <<parserVars, editorVars, deskVars, mergeVars>>

\* await fs.readFile() after a conflicting pull settles
PullHandlerReadConflict ==
  /\ pullH.pc = "readConflict"
  /\ \E out \in ReadOutcomes :
       pullH' =
         IF out = "ok" THEN Return(pullH, Called(pullH, "readFile", out),
                                   WithContent(FileAt(pullH.path), TRUE))
         ELSE Return(pullH, Called(pullH, "readFile", out), Failed(out))
  /\ UNCHANGED <<currentFilePath, newTabSent, file, pushH, appVars, panelVars>>
  /\ UNCHANGED sessionVars
  /\ UNCHANGED <<parserVars, editorVars, deskVars, mergeVars>>

\* git:pushWithConflictHandling, entry: up to the first await
PushHandlerStart ==
  IF currentFilePath = NoPath
    THEN Return(IdleHandler, <<>>, Failed(E_NOFILE))
    ELSE [IdleHandler EXCEPT !.pc = "push", !.path = currentFilePath]

\* the test widened to any push error that mentions a conflict
IsRemoteAhead_OrConflict(errorStr) ==
  \/ Includes(errorStr, "rejected")
  \/ Includes(errorStr, "non-fast-forward")
  \/ Includes(errorStr, "fetch first")
  \/ Includes(errorStr, "behind")
  \/ Includes(errorStr, "conflict")

\* the test that the push failed because the remote has changes
IsRemoteAhead(errorStr) ==
  \/ Includes(errorStr, "rejected")
  \/ Includes(errorStr, "non-fast-forward")
  \/ Includes(errorStr, "fetch first")
  \/ Includes(errorStr, "behind")

\* a catch (conflictError) that takes every error for a conflict
IsConflictError_Always(conflictStr) == TRUE

\* the test of catch (conflictError)
IsConflictError(conflictStr) ==
  Includes(conflictStr, "CONFLICT") \/ Includes(conflictStr, "conflict")

\* the test with startsWith in place of includes for the start marker
ContentHasMarkers_StartsWith(content) ==
  StartsWithConflictStart(content[1]) /\ ContentIncludes(content, ">>>>>>>")

\* the test on the content read after the stash pop
ContentHasMarkers(content) ==
  ContentIncludes(content, "<<<<<<<") /\ ContentIncludes(content, ">>>>>>>")

\* catch (conflictError) of the recovery sequence
CatchConflictError(h, calls, conflictError) ==
  IF IsConflictError(conflictError)
    THEN [h EXCEPT !.pc = "readConflict", !.calls = calls]
    ELSE Return(h, calls, Failed(conflictError))

\* the first await git.push() settles
PushHandlerPush ==
  /\ pushH.pc = "push"
  /\ \E out \in PushOutcomes :
       pushH' =
         IF out = "ok" THEN Return(pushH, Called(pushH, "push", out), Pushed)
         ELSE IF IsRemoteAhead(out)
           THEN IF currentFilePath = NoPath
                  THEN Return(pushH, Called(pushH, "push", out), Failed(E_NOFILE))
                  ELSE [pushH EXCEPT !.pc = "stash", !.calls = Called(pushH, "push", out)]
         ELSE Return(pushH, Called(pushH, "push", out), Failed(out))
  /\ UNCHANGED <<currentFilePath, newTabSent, file, pullH, appVars, panelVars>>
  /\ UNCHANGED sessionVars
  /\ UNCHANGED <<parserVars, editorVars, deskVars, mergeVars>>

\* await localGit.stash() settles
PushHandlerStash ==
  /\ pushH.pc = "stash"
  /\ \E out \in StashOutcomes :
       /\ file' \in WorkingCopyAfter(out)
       /\ pushH' =
            IF out = "ok"
              THEN [pushH EXCEPT !.pc = "pull", !.calls = Called(pushH, "stash", out)]
              ELSE CatchConflictError(pushH, Called(pushH, "stash", out), out)
  /\ UNCHANGED <<currentFilePath, newTabSent, pullH, appVars, panelVars>>
  /\ UNCHANGED sessionVars
  /\ UNCHANGED <<parserVars, editorVars, deskVars, mergeVars>>

\* await git.pull() of the recovery sequence settles
PushHandlerPull ==
  /\ pushH.pc = "pull"
  /\ \E out \in PullOutcomes :
       /\ file' \in WorkingCopyAfter(out)
       /\ pushH' =
            IF out = "ok"
              THEN [pushH EXCEPT !.pc = "stashPop", !.calls = Called(pushH, "pull", out)]
              ELSE CatchConflictError(pushH, Called(pushH, "pull", out), out)
  /\ UNCHANGED <<currentFilePath, newTabSent, pullH, appVars, panelVars>>
  /\ UNCHANGED sessionVars
  /\ UNCHANGED <<parserVars, editorVars, deskVars, mergeVars>>

\* await localGit.stash(['pop']) settles
PushHandlerStashPop ==
  /\ pushH.pc = "stashPop"
  /\ \E out \in StashPopOutcomes :
       /\ file' \in WorkingCopyAfter(out)
       /\ pushH' =
            IF out = "ok"
              THEN [pushH EXCEPT !.pc = "read", !.calls = Called(pushH, "stashPop", out)]
              ELSE CatchConflictError(pushH, Called(pushH, "stashPop", out), out)
  /\ UNCHANGED <<currentFilePath, newTabSent, pullH, appVars, panelVars>>
  /\ UNCHANGED sessionVars
  /\ UNCHANGED <<parserVars, editorVars, deskVars, mergeVars>>

\* await fs.readFile() after the stash pop settles
PushHandlerRead ==
  /\ pushH.pc = "read"
  /\ \E out \in ReadOutcomes :
       pushH' =
         IF out = "ok"
           THEN IF ContentHasMarkers(FileAt(pushH.path))
                  THEN Return(pushH, Called(pushH, "readFile", out),
                              WithContent(FileAt(pushH.path), TRUE))
                  ELSE [pushH EXCEPT !.pc = "retry", !.calls = Called(pushH, "readFile", out)]
           ELSE CatchConflictError(pushH, Called(pushH, "readFile", out), out)
  /\ UNCHANGED <<currentFilePath, newTabSent, file, pullH, appVars, panelVars>>
  /\ UNCHANGED sessionVars
  /\ UNCHANGED <<parserVars, editorVars, deskVars, mergeVars>>

\* the second await git.push() settles
PushHandlerRetry ==
  /\ pushH.pc = "retry"
  /\ \E out \in PushOutcomes :
       pushH' =
         IF out = "ok" THEN Return(pushH, Called(pushH, "push", out), Pushed)
         ELSE CatchConflictError(pushH, Called(pushH, "push", out), out)
  /\ UNCHANGED <<currentFilePath, newTabSent, file, pullH, appVars, panelVars>>
  /\ UNCHANGED sessionVars
  /\ UNCHANGED <<parserVars, editorVars, deskVars, mergeVars>>

\* await fs.readFile() inside catch (conflictError) settles
PushHandlerReadConflict ==
  /\ pushH.pc = "readConflict"
  /\ \E out \in ReadOutcomes :
       pushH' =
         IF out = "ok" THEN Return(pushH, Called(pushH, "readFile", out),
                                   WithContent(FileAt(pushH.path), TRUE))
         ELSE Return(pushH, Called(pushH, "readFile", out), Failed(out))
  /\ UNCHANGED <<currentFilePath, newTabSent, file, pullH, appVars, panelVars>>
  /\ UNCHANGED sessionVars
  /\ UNCHANGED <<parserVars, editorVars, deskVars, mergeVars>>

\* ------------------------------------------------------------------------
\* Main process: opening a file, the New Tab menu item
\* ------------------------------------------------------------------------
\* openFile and the renderer's onOpened; the effect on filePath asks git:isRepo
Open(path) ==
  /\ ~newTabSent
  /\ currentFilePath # path
  /\ currentFilePath' = path
  /\ tabFilePath' = path
  /\ tabContent' = FileAt(path)
  /\ isGitRepo' \in BOOLEAN
  /\ UNCHANGED <<newTabSent, file, pullH, pushH, behindCount, isPulling, pullPc,
                 activeConflict, dialog, pollPc, panelVars>>
  /\ UNCHANGED sessionVars
  /\ UNCHANGED <<parserVars, editorVars, deskVars, mergeVars>>

\* the tracked document is opened
OpenFile == Open(DocPath)

\* File > Open on another file of the folder
OpenOtherFile == Open(OtherPath)

\* handleNewTab of the main process
HandleNewTab ==
  /\ currentFilePath # NoPath
  /\ currentFilePath' = NoPath
  /\ newTabSent' = TRUE
  /\ UNCHANGED <<file, pullH, pushH, appVars, panelVars>>
  /\ UNCHANGED sessionVars
  /\ UNCHANGED <<parserVars, editorVars, deskVars, mergeVars>>

\* the renderer's onNew: createNewTab, then the effect on filePath
OnNew ==
  /\ newTabSent
  /\ newTabSent' = FALSE
  /\ tabFilePath' = NoPath
  /\ tabContent' = <<"">>
  /\ isGitRepo' = FALSE
  /\ behindCount' = 0
  /\ UNCHANGED <<currentFilePath, file, pullH, pushH, isPulling, pullPc,
                 activeConflict, dialog, pollPc, panelVars>>
  /\ UNCHANGED sessionVars
  /\ UNCHANGED <<parserVars, editorVars, deskVars, mergeVars>>

\* ------------------------------------------------------------------------
\* Renderer: handlePull, checkForUpdates (App), handlePush (FolderPanel)
\* ------------------------------------------------------------------------
\* the truthiness of result.content
Truthy(content) == content # Null /\ content # <<"">>

\* {activeConflict && <ConflictResolver conflict={activeConflict} />}: the
\* component takes its state from the prop when it mounts and keeps it while
\* activeConflict stays non-null
Mounted(initialConflict) == IF resolver = <<>> THEN <<initialConflict>> ELSE resolver

\* the ConflictBanner button: rendered when the file is behind, disabled
\* while pulling, covered by the ConflictResolver overlay
HandlePull ==
  /\ isGitRepo /\ behindCount > 0 /\ ~isPulling
  /\ activeConflict = <<>>
  /\ pullPc = "idle" /\ pullH.pc = "idle"
  /\ isPulling' = TRUE
  /\ pullPc' = "invoked"
  /\ pullH' = PullHandlerStart
  /\ UNCHANGED <<currentFilePath, newTabSent, file, pushH, tabFilePath, tabContent,
                 isGitRepo, behindCount, activeConflict, dialog, pollPc, panelVars>>
  /\ UNCHANGED sessionVars
  /\ UNCHANGED <<parserVars, editorVars, deskVars, mergeVars>>

\* handlePull after await pullWithConflictDetection()
HandlePullResult ==
  /\ pullPc = "invoked" /\ pullH.pc = "done"
  /\ pullH' = IdleHandler
  /\ LET result == pullH.result
         parsed == parseConflicts(result.content, tabFilePath)
     IN IF ~result.success THEN
          /\ dialog' = "Pull Failed"
          /\ pullPc' = "dialog"
          /\ UNCHANGED <<isPulling, activeConflict, resolver, tabContent,
                         behindCount>>
        ELSE IF result.hasConflicts /\ Truthy(result.content) THEN
          IF Len(parsed.sections) > 0
            THEN /\ activeConflict' = <<parsed>>
                 /\ resolver' = Mounted(parsed)
                 /\ pullPc' = "idle"
                 /\ isPulling' = FALSE
                 /\ UNCHANGED <<dialog, tabContent, behindCount>>
            ELSE /\ dialog' = "Merge Conflict"
                 /\ pullPc' = "dialog"
                 /\ UNCHANGED <<isPulling, activeConflict, resolver,
                                tabContent, behindCount>>
        ELSE IF Truthy(result.content) THEN
          /\ tabContent' = result.content
          /\ behindCount' = 0
          /\ pullPc' = "idle"
          /\ isPulling' = FALSE
          /\ UNCHANGED <<dialog, activeConflict, resolver>>
        ELSE
          /\ pullPc' = "idle"
          /\ isPulling' = FALSE
          /\ UNCHANGED <<dialog, activeConflict, resolver, tabContent,
                         behindCount>>
  /\ UNCHANGED <<currentFilePath, newTabSent, file, pushH, tabFilePath, isGitRepo,
                 pollPc, panelVars>>
  /\ UNCHANGED <<otherFile, writeH, abortH, readH, resolvePc, cancelPc>>
  /\ UNCHANGED <<parserVars, editorVars, deskVars, mergeVars>>

\* the message box of handlePull is dismissed, then finally
HandlePullDialogClosed ==
  /\ pullPc = "dialog"
  /\ pullPc' = "idle"
  /\ isPulling' = FALSE
  /\ dialog' = ""
  /\ UNCHANGED <<mainVars, tabFilePath, tabContent, isGitRepo, behindCount,
                 activeConflict, pollPc, panelVars>>
  /\ UNCHANGED sessionVars
  /\ UNCHANGED <<parserVars, editorVars, deskVars, mergeVars>>

\* checkForUpdates, started by the interval timer: await git.fetch() is issued
CheckForUpdates ==
  /\ isGitRepo /\ tabFilePath # NoPath
  /\ pollPc = "idle"
  /\ pollPc' = "fetch"
  /\ UNCHANGED <<mainVars, tabFilePath, tabContent, isGitRepo, behindCount, isPulling,
                 pullPc, activeConflict, dialog, panelVars>>
  /\ UNCHANGED sessionVars
  /\ UNCHANGED <<parserVars, editorVars, deskVars, mergeVars>>

\* git:fetch settles (it never rejects), await git.status() is issued
CheckForUpdatesFetched ==
  /\ pollPc = "fetch"
  /\ \E out \in FetchOutcomes : pollPc' = "status"
  /\ UNCHANGED <<mainVars, tabFilePath, tabContent, isGitRepo, behindCount, isPulling,
                 pullPc, activeConflict, dialog, panelVars>>
  /\ UNCHANGED sessionVars
  /\ UNCHANGED <<parserVars, editorVars, deskVars, mergeVars>>

\* git:status settles: setBehindCount(status.behind), or the error is ignored
CheckForUpdatesStatus ==
  /\ pollPc = "status"
  /\ pollPc' = "idle"
  /\ \/ \E behind \in 0..1 : behindCount' = behind
     \/ UNCHANGED behindCount
  /\ UNCHANGED <<mainVars, tabFilePath, tabContent, isGitRepo, isPulling,
                 pullPc, activeConflict, dialog, panelVars>>
  /\ UNCHANGED sessionVars
  /\ UNCHANGED <<parserVars, editorVars, deskVars, mergeVars>>

\* FolderPanel handlePush: the button is disabled while pushing and covered
\* by the ConflictResolver overlay; with a commit message it stages and
\* commits first
HandlePush ==
  /\ ~isPushing
  /\ activeConflict = <<>>
  /\ pushPc = "idle" /\ pushH.pc = "idle"
  /\ isPushing' = TRUE
  /\ gitError' = ""
  /\ gitStatus' = ""
  /\ \E hasMessage \in BOOLEAN :
       IF hasMessage
         THEN pushPc' = "addAll" /\ UNCHANGED pushH
         ELSE pushPc' = "invoked" /\ pushH' = PushHandlerStart
  /\ UNCHANGED <<currentFilePath, newTabSent, file, pullH, appVars>>
  /\ UNCHANGED sessionVars
  /\ UNCHANGED <<parserVars, editorVars, deskVars, mergeVars>>

\* handlePush after await git.addAll()
HandlePushAdded ==
  /\ pushPc = "addAll"
  /\ \E out \in SimpleOutcomes :
       IF out = "ok"
         THEN pushPc' = "commit" /\ UNCHANGED <<isPushing, gitError>>
         ELSE pushPc' = "idle" /\ isPushing' = FALSE /\ gitError' = out
  /\ UNCHANGED <<mainVars, appVars, gitStatus>>
  /\ UNCHANGED sessionVars
  /\ UNCHANGED <<parserVars, editorVars, deskVars, mergeVars>>

\* handlePush after await git.commit(): pushWithConflictHandling is invoked
HandlePushCommitted ==
  /\ pushPc = "commit"
  /\ \E out \in SimpleOutcomes :
       IF out = "ok"
         THEN pushPc' = "invoked" /\ pushH' = PushHandlerStart
              /\ UNCHANGED <<isPushing, gitError>>
         ELSE pushPc' = "idle" /\ isPushing' = FALSE /\ gitError' = out
              /\ UNCHANGED pushH
  /\ UNCHANGED <<currentFilePath, newTabSent, file, pullH, appVars, gitStatus>>
  /\ UNCHANGED sessionVars
  /\ UNCHANGED <<parserVars, editorVars, deskVars, mergeVars>>

\* handlePush after await pushWithConflictHandling(); onConflict is the
\* callback App passes to Filebar
HandlePushResult ==
  /\ pushPc = "invoked" /\ pushH.pc = "done"
  /\ pushH' = IdleHandler
  /\ pushPc' = "idle"
  /\ isPushing' = FALSE
  /\ LET result == pushH.result
         parsed == parseConflicts(result.content, tabFilePath)
     IN IF ~result.success THEN
          /\ gitError' = result.error
          /\ UNCHANGED <<gitStatus, activeConflict, resolver>>
        ELSE IF result.hasConflicts /\ Truthy(result.content) THEN
          /\ activeConflict' = IF Len(parsed.sections) > 0 THEN <<parsed>> ELSE activeConflict
          /\ resolver' = IF Len(parsed.sections) > 0 THEN Mounted(parsed) ELSE resolver
          /\ UNCHANGED <<gitStatus, gitError>>
        ELSE
          /\ gitStatus' = "Synced"
          /\ UNCHANGED <<gitError, activeConflict, resolver>>
  /\ UNCHANGED <<currentFilePath, newTabSent, file, pullH, tabFilePath, tabContent,
                 isGitRepo, behindCount, isPulling, pullPc, dialog, pollPc>>
  /\ UNCHANGED <<otherFile, writeH, abortH, readH, resolvePc, cancelPc>>
  /\ UNCHANGED <<parserVars, editorVars, deskVars, mergeVars>>

\* ------------------------------------------------------------------------
\* Main process: git:writeResolution, git:abortMerge, git:readCurrentFile
\* ------------------------------------------------------------------------
E_WRITE == "Error: EACCES: permission denied"
E_NOMERGE == "Error: fatal: There is no merge to abort (MERGE_HEAD missing)."

WriteOutcomes == {"ok", E_WRITE}
AbortOutcomes == {"ok", E_NOMERGE}

\* { success: true }
Succeeded == [success |-> TRUE, hasConflicts |-> FALSE, content |-> Null, error |-> ""]

\* an invocation of git:writeResolution also holds its argument
IdleWriteHandler ==
  [pc |-> "idle", calls |-> <<>>, result |-> NoResult, path |-> NoPath, content |-> Null]

\* git:writeResolution(content), entry: up to the first await
WriteHandlerStart(content) ==
  IF currentFilePath = NoPath
    THEN [IdleWriteHandler EXCEPT !.pc = "done", !.result = Failed(E_NOFILE),
                                  !.content = content]
    ELSE [IdleWriteHandler EXCEPT !.pc = "writeFile", !.path = currentFilePath,
                                  !.content = content]

\* await fs.writeFile(filePath, content) settles
WriteHandlerWrite ==
  /\ writeH.pc = "writeFile"
  /\ \E out \in WriteOutcomes :
       /\ writeH' =
            IF out = "ok"
              THEN [writeH EXCEPT !.pc = "add", !.calls = Called(writeH, "writeFile", out)]
              ELSE [writeH EXCEPT !.pc = "done", !.calls = Called(writeH, "writeFile", out),
                                  !.result = Failed(out)]
       /\ file' = IF out = "ok" /\ writeH.path # OtherPath THEN writeH.content ELSE file
       /\ otherFile' = IF out = "ok" /\ writeH.path = OtherPath THEN writeH.content
                       ELSE otherFile
  /\ UNCHANGED <<currentFilePath, newTabSent, pullH, pushH, appVars, panelVars>>
  /\ UNCHANGED <<abortH, readH, resolvePc, cancelPc, resolver>>
  /\ UNCHANGED <<parserVars, editorVars, deskVars, mergeVars>>

\* await git.add([relativePath]) settles
WriteHandlerAdd ==
  /\ writeH.pc = "add"
  /\ \E out \in SimpleOutcomes :
       writeH' = [writeH EXCEPT !.pc = "done", !.calls = Called(writeH, "add", out),
                                !.result = IF out = "ok" THEN Succeeded ELSE Failed(out)]
  /\ UNCHANGED <<mainVars, appVars, panelVars>>
  /\ UNCHANGED <<otherFile, abortH, readH, resolvePc, cancelPc, resolver>>
  /\ UNCHANGED <<parserVars, editorVars, deskVars, mergeVars>>

\* git:abortMerge, entry: up to the first await
AbortHandlerStart ==
  IF currentFilePath = NoPath
    THEN Return(IdleHandler, <<>>, Failed(E_NOFILE))
    ELSE [IdleHandler EXCEPT !.pc = "merge", !.path = currentFilePath]

\* await git.merge(['--abort']) settles; git restores the pre-merge text
AbortHandlerMerge ==
  /\ abortH.pc = "merge"
  /\ \E out \in AbortOutcomes :
       /\ abortH' = Return(abortH, Called(abortH, "abortMerge", out),
                           IF out = "ok" THEN Succeeded ELSE Failed(out))
       /\ file' = IF out = "ok" THEN CleanText ELSE file
  /\ UNCHANGED <<currentFilePath, newTabSent, pullH, pushH, appVars, panelVars>>
  /\ UNCHANGED <<otherFile, writeH, readH, resolvePc, cancelPc, resolver>>
  /\ UNCHANGED <<parserVars, editorVars, deskVars, mergeVars>>

\* git:readCurrentFile, entry: up to the first await
ReadHandlerStart ==
  IF currentFilePath = NoPath
    THEN Return(IdleHandler, <<>>, Failed(E_NOFILE))
    ELSE [IdleHandler EXCEPT !.pc = "read", !.path = currentFilePath]

\* await fs.readFile(filePath) settles
ReadHandlerRead ==
  /\ readH.pc = "read"
  /\ \E out \in ReadOutcomes :
       readH' = Return(readH, Called(readH, "readFile", out),
                       IF out = "ok" THEN WithContent(FileAt(readH.path), FALSE)
                       ELSE Failed(out))
  /\ UNCHANGED <<mainVars, appVars, panelVars>>
  /\ UNCHANGED <<otherFile, writeH, abortH, resolvePc, cancelPc, resolver>>
  /\ UNCHANGED <<parserVars, editorVars, deskVars, mergeVars>>

\* ------------------------------------------------------------------------
\* Renderer: ConflictResolver, handleConflictResolved, handleConflictCancel
\* ------------------------------------------------------------------------
\* a message box of the window is open: it is modal to the window
MessageBoxOpen ==
  pullPc = "dialog" \/ resolvePc \in {"mergeComplete", "error"} \/ cancelPc = "confirm"

\* conflict.sections[currentIndex]; every document the resolver is given
\* here has one section, so currentIndex stays 0
CurrentSection == resolver[1].sections[currentIndex + 1]

\* handleKeepLocal, handleKeepRemote, handleKeepBoth: handleResolve
HandleKeep ==
  /\ resolver # <<>>
  /\ ~MessageBoxOpen
  /\ \E content \in {CurrentSection.localContent, CurrentSection.remoteContent,
                     KeepBoth(CurrentSection)} :
       resolver' = <<resolveSection(resolver[1], CurrentSection.id, content)>>
  /\ aiError' = ""
  /\ UNCHANGED <<currentIndex, aiLoading, showAiSettings, aiSettings, aiStore, aiH, setH>>
  /\ UNCHANGED <<mainVars, appVars, panelVars>>
  /\ UNCHANGED <<otherFile, writeH, abortH, readH, resolvePc, cancelPc>>
  /\ UNCHANGED <<parserVars, editorVars, deskVars>>

\* handleSaveAll and the start of handleConflictResolved: the button is
\* disabled until every section is resolved
HandleSaveAll ==
  /\ resolver # <<>>
  /\ ~MessageBoxOpen
  /\ allConflictsResolved(resolver[1])
  /\ resolvePc = "idle" /\ writeH.pc = "idle"
  /\ resolvePc' = "invoked"
  /\ writeH' = WriteHandlerStart(rebuildFromConflicts(resolver[1]))
  /\ UNCHANGED <<mainVars, appVars, panelVars>>
  /\ UNCHANGED <<otherFile, abortH, readH, cancelPc, resolver>>
  /\ UNCHANGED <<parserVars, editorVars, deskVars, mergeVars>>

\* handleConflictResolved after await writeResolution()
HandleConflictResolved ==
  /\ resolvePc = "invoked" /\ writeH.pc = "done"
  /\ writeH' = IdleWriteHandler
  /\ IF writeH.result.success
       THEN /\ tabContent' = writeH.content
            /\ activeConflict' = <<>>
            /\ resolver' = <<>>
            /\ behindCount' = 0
            /\ resolvePc' = "mergeComplete"
       ELSE /\ resolvePc' = "error"
            /\ UNCHANGED <<tabContent, activeConflict, resolver, behindCount>>
  /\ UNCHANGED <<mainVars, tabFilePath, isGitRepo, isPulling, pullPc, dialog, pollPc,
                 panelVars>>
  /\ UNCHANGED <<otherFile, abortH, readH, cancelPc>>
  /\ UNCHANGED <<parserVars, editorVars, deskVars, mergeVars>>

\* the message box of handleConflictResolved is dismissed
HandleConflictResolvedClosed ==
  /\ resolvePc \in {"mergeComplete", "error"}
  /\ resolvePc' = "idle"
  /\ UNCHANGED <<mainVars, appVars, panelVars>>
  /\ UNCHANGED <<otherFile, writeH, abortH, readH, cancelPc, resolver>>
  /\ UNCHANGED <<parserVars, editorVars, deskVars, mergeVars>>

\* handleConflictCancel (the Cancel button, the Escape key): the question
HandleConflictCancel ==
  /\ resolver # <<>>
  /\ ~MessageBoxOpen
  /\ cancelPc = "idle"
  /\ cancelPc' = "confirm"
  /\ UNCHANGED <<mainVars, appVars, panelVars>>
  /\ UNCHANGED <<otherFile, writeH, abortH, readH, resolvePc, resolver>>
  /\ UNCHANGED <<parserVars, editorVars, deskVars, mergeVars>>

\* the question is answered: 'Cancel Merge' invokes abortMerge
HandleConflictCancelAnswered ==
  /\ cancelPc = "confirm"
  /\ \E response \in 0..1 :
       IF response = 0
         THEN cancelPc' = "abort" /\ abortH' = AbortHandlerStart
         ELSE cancelPc' = "idle" /\ UNCHANGED abortH
  /\ UNCHANGED <<mainVars, appVars, panelVars>>
  /\ UNCHANGED <<otherFile, writeH, readH, resolvePc, resolver>>
  /\ UNCHANGED <<parserVars, editorVars, deskVars, mergeVars>>

\* handleConflictCancel after await abortMerge(): the result is not looked
\* at, readCurrentFile is invoked
HandleConflictCancelAborted ==
  /\ cancelPc = "abort" /\ abortH.pc = "done"
  /\ cancelPc' = "read"
  /\ readH' = ReadHandlerStart
  /\ UNCHANGED <<mainVars, appVars, panelVars>>
  /\ UNCHANGED <<otherFile, writeH, abortH, resolvePc, resolver>>
  /\ UNCHANGED <<parserVars, editorVars, deskVars, mergeVars>>

\* handleConflictCancel after await readCurrentFile(): the session is
\* dropped and checkForUpdates() is started
HandleConflictCancelRead ==
  /\ cancelPc = "read" /\ readH.pc = "done"
  /\ cancelPc' = "idle"
  /\ abortH' = IdleHandler
  /\ readH' = IdleHandler
  /\ tabContent' = IF readH.result.success /\ Truthy(readH.result.content)
                     THEN readH.result.content ELSE tabContent
  /\ activeConflict' = <<>>
  /\ resolver' = <<>>
  /\ pollPc' = IF isGitRepo /\ tabFilePath # NoPath /\ pollPc = "idle" THEN "fetch"
               ELSE pollPc
  /\ UNCHANGED <<mainVars, tabFilePath, isGitRepo, behindCount, isPulling, pullPc, dialog,
                 panelVars>>
  /\ UNCHANGED <<otherFile, writeH, resolvePc>>
  /\ UNCHANGED <<parserVars, editorVars, deskVars, mergeVars>>

\* ------------------------------------------------------------------------
\* Toast state (lib/toast.ts)
\* ------------------------------------------------------------------------
\* the toast at module load: hidden, no timer
ToastIdle ==
  [currentState |-> [visible |-> FALSE, message |-> "", duration |-> 2000],
   hideTimeout |-> 0,
   timers |-> {},
   timerSeq |-> 0,
   shown |-> [message |-> "", duration |-> 0, at |-> -1, hiddenBy |-> "none"]]

\* a clearTimeout that leaves the timer armed
clearTimeout_Ignored(timers, id) == timers

\* clearTimeout(id)
clearTimeout(timers, id) == {x \in timers : x.id # id}

\* if (hideTimeout) { clearTimeout(hideTimeout); hideTimeout = null }
ClearHideTimeout(t) ==
  IF t.hideTimeout # 0
    THEN [t EXCEPT !.timers = clearTimeout(t.timers, t.hideTimeout), !.hideTimeout = 0]
    ELSE t

\* showToast(message, duration) called at time `at`
showToast(t, message, duration, at) ==
  LET cleared == ClearHideTimeout(t)
      id == t.timerSeq + 1
  IN [cleared EXCEPT
        !.currentState = [visible |-> TRUE, message |-> message, duration |-> duration],
        !.timers = cleared.timers \cup {[id |-> id, due |-> at + duration]},
        !.hideTimeout = id,
        !.timerSeq = id,
        !.shown = [message |-> message, duration |-> duration, at |-> at,
                   hiddenBy |-> "none"]]

\* hideToast()
hideToast(t) ==
  LET cleared == ClearHideTimeout(t)
  IN [cleared EXCEPT !.currentState.visible = FALSE,
                     !.shown.hiddenBy = IF t.currentState.visible THEN "hideToast" ELSE @]

\* the arguments callers give showToast
Messages == {"Saved", "Copied"}
Durations == {1000, 2000}

\* a caller shows a toast
ShowToast ==
  /\ toast.timerSeq < MaxTimers
  /\ \E message \in Messages, duration \in Durations :
       toast' = showToast(toast, message, duration, now)
  /\ UNCHANGED <<now, doc, cursor, pendingDeletion, lastBackspace>>
  /\ UNCHANGED <<parserVars, syncVars, deskVars, mergeVars>>

\* a caller hides the toast
HideToast ==
  /\ toast' = hideToast(toast)
  /\ UNCHANGED <<now, doc, cursor, pendingDeletion, lastBackspace>>
  /\ UNCHANGED <<parserVars, syncVars, deskVars, mergeVars>>

\* a timer armed by setTimeout is due: its callback runs hideToast()
TimerFires ==
  /\ \E x \in toast.timers :
       /\ x.due <= now
       /\ LET fired == [toast EXCEPT !.timers = toast.timers \ {x}]
              hidden == hideToast(fired)
          IN toast' = [hidden EXCEPT
                         !.shown.hiddenBy = IF toast.currentState.visible THEN "timeout"
                                            ELSE @]
  /\ UNCHANGED <<now, doc, cursor, pendingDeletion, lastBackspace>>
  /\ UNCHANGED <<parserVars, syncVars, deskVars, mergeVars>>

\* the time of the next event: the end of the tick, or the first timer due
\* before it
NextTime ==
  LET dues == {x.due : x \in toast.timers} \cup {now + TickMs}
  IN CHOOSE t \in dues : \A u \in dues : t <= u

\* time passes; a due timer runs before the clock moves on
Tick ==
  /\ now < MaxTime
  /\ \A x \in toast.timers : x.due > now
  /\ now' = NextTime
  /\ UNCHANGED <<toast, doc, cursor, pendingDeletion, lastBackspace>>
  /\ UNCHANGED <<parserVars, syncVars, deskVars, mergeVars>>

\* ------------------------------------------------------------------------
\* Deletion confirmation plugin (editor/plugins/deletionConfirm.ts)
\* ------------------------------------------------------------------------
DELETION_TIMEOUT == 2000

DeletionTypes == {"table", "blockquote", "code_block"}

\* a top-level node: a paragraph, a code block, a blockquote holding one
\* paragraph, or a table of one cell holding one paragraph; chars is the
\* length of its text
Block(id, type, chars) == [id |-> id, type |-> type, chars |-> chars]

\* the document the editor starts with
StartDoc ==
  <<Block(1, "paragraph", 1), Block(2, "blockquote", 0), Block(3, "code_block", 0),
    Block(4, "table", 0)>>

\* the paragraph inserted when the document would be empty
EmptyParagraph == Block(5, "paragraph", 0)

\* node.content.size of the node the emptiness test looks at: the code
\* block, the blockquote, the table cell
ContentSize(b) == IF b.type \in {"blockquote", "table"} THEN 2 + b.chars ELSE b.chars

\* node.nodeSize of a top-level node
NodeSize(b) ==
  CASE b.type = "paragraph" -> 2 + b.chars
    [] b.type = "code_block" -> 2 + b.chars
    [] b.type = "blockquote" -> 4 + b.chars
    [] b.type = "table" -> 8 + b.chars

RECURSIVE NodePos(_, _)
\* $from.before(d): the position at which the i-th top-level node starts
NodePos(d, i) == IF i = 1 THEN 0 ELSE NodePos(d, i - 1) + NodeSize(d[i - 1])

NoBlock == [type |-> "", nodePos |-> -1]

\* isInTopLeftTableCell: the cursor is at the start of the empty first cell
isInTopLeftTableCell(d, c) ==
  [result |-> d[c].type = "table" /\ ContentSize(d[c]) = 2,
   tablePos |-> IF d[c].type = "table" THEN NodePos(d, c) ELSE -1]

\* isAtStartOfEmptyBlockquote
isAtStartOfEmptyBlockquote(d, c) ==
  [result |-> d[c].type = "blockquote" /\ ContentSize(d[c]) = 2,
   nodePos |-> IF d[c].type = "blockquote" THEN NodePos(d, c) ELSE -1]

\* isAtStartOfEmptyCodeBlock
isAtStartOfEmptyCodeBlock(d, c) ==
  [result |-> d[c].type = "code_block" /\ ContentSize(d[c]) = 0,
   nodePos |-> IF d[c].type = "code_block" THEN NodePos(d, c) ELSE -1]

\* getDeletableBlock(state); the cursor of the model is a text cursor in the
\* c-th node, at offset 0 when the node is empty
getDeletableBlock(d, c) ==
  IF isInTopLeftTableCell(d, c).result
    THEN [type |-> "table", nodePos |-> isInTopLeftTableCell(d, c).tablePos]
  ELSE IF isAtStartOfEmptyBlockquote(d, c).result
    THEN [type |-> "blockquote", nodePos |-> isAtStartOfEmptyBlockquote(d, c).nodePos]
  ELSE IF isAtStartOfEmptyCodeBlock(d, c).result
    THEN [type |-> "code_block", nodePos |-> isAtStartOfEmptyCodeBlock(d, c).nodePos]
  ELSE NoBlock

\* getTypeName(type) in the message of the toast
TypeMessage(type) ==
  "Press backspace again to delete " \o (IF type = "code_block" THEN "code block" ELSE type)

\* state.apply(tr, value) of the plugin for a transaction without meta:
\* the pending deletion it returns and whether it calls hideToast()
Apply(value, docChanged, at) ==
  IF docChanged /\ value # <<>> THEN [pendingDeletion |-> <<>>, hides |-> TRUE]
  ELSE IF value # <<>> /\ at - value[1].timestamp > DELETION_TIMEOUT
    THEN [pendingDeletion |-> <<>>, hides |-> FALSE]
  ELSE [pendingDeletion |-> value, hides |-> FALSE]

\* state.tr.delete(nodePos, nodePos + node.nodeSize), and the paragraph
\* inserted when nothing is left
DeleteNodeAt(d, nodePos) ==
  LET kept == SelectSeq([i \in 1..Len(d) |-> [b |-> d[i], pos |-> NodePos(d, i)]],
                        LAMBDA x : x.pos # nodePos)
  IN IF Len(kept) = 0 THEN <<EmptyParagraph>> ELSE [i \in 1..Len(kept) |-> kept[i].b]

\* the deletion the keypress is about, for the record of keypresses
KeyTarget(d, c) == IF getDeletableBlock(d, c) # NoBlock THEN d[c].id ELSE 0

\* the Backspace key: handleDeletionBackspace first, and the rest of the
\* keymap chain (which deletes a character) when it returns false
Backspace ==
  /\ toast.timerSeq < MaxTimers
  /\ LET deletableBlock == getDeletableBlock(doc, cursor)
         pending == pendingDeletion
     IN IF /\ pending # <<>>
           /\ now - pending[1].timestamp <= DELETION_TIMEOUT
           /\ deletableBlock # NoBlock
           /\ deletableBlock.type = pending[1].type
           /\ deletableBlock.nodePos = pending[1].nodePos
        THEN
          /\ doc' = DeleteNodeAt(doc, pending[1].nodePos)
          /\ cursor' = IF cursor > Len(doc') THEN Len(doc') ELSE cursor
          /\ pendingDeletion' = <<>>
          /\ toast' = hideToast(toast)
        ELSE
          LET cleared == IF pending # <<>> THEN hideToast(toast) ELSE toast
          IN IF deletableBlock # NoBlock THEN
               /\ pendingDeletion' = <<[type |-> deletableBlock.type,
                                        nodePos |-> deletableBlock.nodePos,
                                        timestamp |-> now]>>
               /\ toast' = showToast(cleared, TypeMessage(deletableBlock.type),
                                     DELETION_TIMEOUT, now)
               /\ UNCHANGED <<doc, cursor>>
             ELSE
               /\ pendingDeletion' = <<>>
               /\ toast' = cleared
               /\ doc' = IF doc[cursor].chars > 0
                           THEN [doc EXCEPT ![cursor].chars = @ - 1] ELSE doc
               /\ UNCHANGED cursor
  /\ lastBackspace' = [block |-> KeyTarget(doc, cursor), at |-> now,
                       moved |-> FALSE, changed |-> FALSE]
  /\ UNCHANGED now
  /\ UNCHANGED <<parserVars, syncVars, deskVars, mergeVars>>

\* a character is typed into the node of the cursor: a transaction with
\* docChanged
TypeText ==
  /\ doc[cursor].chars < MaxChars
  /\ doc' = [doc EXCEPT ![cursor].chars = @ + 1]
  /\ LET applied == Apply(pendingDeletion, TRUE, now)
     IN /\ pendingDeletion' = applied.pendingDeletion
        /\ toast' = IF applied.hides THEN hideToast(toast) ELSE toast
  /\ lastBackspace' = [lastBackspace EXCEPT !.changed = TRUE]
  /\ UNCHANGED <<now, cursor>>
  /\ UNCHANGED <<parserVars, syncVars, deskVars, mergeVars>>

\* the cursor is put into another node (arrow keys, a click): a transaction
\* that sets the selection only
MoveCursor ==
  /\ \E to \in 1..Len(doc) :
       /\ to # cursor
       /\ cursor' = to
  /\ LET applied == Apply(pendingDeletion, FALSE, now)
     IN /\ pendingDeletion' = applied.pendingDeletion
        /\ toast' = IF applied.hides THEN hideToast(toast) ELSE toast
  /\ lastBackspace' = [lastBackspace EXCEPT !.moved = TRUE]
  /\ UNCHANGED <<now, doc>>
  /\ UNCHANGED <<parserVars, syncVars, deskVars, mergeVars>>

\* the editor at rest: the toast hidden, nothing pending
EditorIdle ==
  /\ now = 0
  /\ toast = ToastIdle
  /\ doc = StartDoc
  /\ cursor = 1
  /\ pendingDeletion = <<>>
  /\ lastBackspace = [block |-> 0, at |-> -1, moved |-> FALSE, changed |-> FALSE]

\* ------------------------------------------------------------------------
\* Tabs, saving and the file watcher (src/App.tsx, electron/main.ts,
\* electron file watcher)
\* ------------------------------------------------------------------------
\* watchers chokidar.watch hands out in one run
MaxWatchers == 4
\* 'file:opened' messages in flight at once
MaxOpened == 1

\* the text files the window opens, and what they hold at the start
FilePaths == {DocPath, OtherPath}
DiskStart == [p \in FilePaths |-> IF p = DocPath THEN <<"a">> ELSE <<"b">>]
\* the texts typed into the editor
TypedTexts == {<<"x">>}

E_NOPATH == "No file path"
E_CANCELLED == "Cancelled"

\* createUntitledTab([]): the id is `untitled-${Date.now()}`
createUntitledTab ==
  [id |-> "untitled-0", filePath |-> NoPath, content |-> <<"">>,
   savedContent |-> <<"">>, isDirty |-> FALSE]

createFileTab(filePath, content) ==
  [id |-> filePath, filePath |-> filePath, content |-> content,
   savedContent |-> content, isDirty |-> FALSE]

\* tabs.find(t => t.id === tabId): the index of the first such tab, 0 if none
FindTabById(tabId) ==
  IF \E i \in 1..Len(tabs) : tabs[i].id = tabId
    THEN CHOOSE i \in 1..Len(tabs) :
           /\ tabs[i].id = tabId
           /\ \A j \in 1..(i - 1) : tabs[j].id # tabId
    ELSE 0

\* tabs.find(t => t.filePath === openFilePath)
FindTabByPath(openFilePath) ==
  IF \E i \in 1..Len(tabs) : tabs[i].filePath = openFilePath
    THEN CHOOSE i \in 1..Len(tabs) :
           /\ tabs[i].filePath = openFilePath
           /\ \A j \in 1..(i - 1) : tabs[j].filePath # openFilePath
    ELSE 0

\* the derived state of App: activeTab?.content || '', activeTab?.filePath || null
ActiveContent ==
  IF FindTabById(activeTabId) = 0 THEN <<"">> ELSE tabs[FindTabById(activeTabId)].content
ActiveFilePath ==
  IF FindTabById(activeTabId) = 0 THEN NoPath ELSE tabs[FindTabById(activeTabId)].filePath

\* the file watcher module at load: watcher = null, currentPath = null
WatchIdle == [watcher |-> 0, currentPath |-> NoPath, live |-> {}, lastId |-> 0]

stopFileWatcher(w) ==
  IF w.watcher # 0
    THEN [w EXCEPT !.live = {x \in @ : x.id # w.watcher},
                   !.watcher = 0,
                   !.currentPath = NoPath]
    ELSE w

setupFileWatcher(w, filePath) ==
  LET stopped == IF w.watcher # 0 /\ w.currentPath # filePath
                   THEN stopFileWatcher(w) ELSE w
      made == stopped.lastId + 1
  IN [stopped EXCEPT !.currentPath = filePath,
                     !.watcher = made,
                     !.live = @ \cup {[id |-> made, path |-> filePath]},
                     !.lastId = made]

NoSaveResult == [success |-> FALSE, filePath |-> NoPath, error |-> ""]
SaveFailed(error) == [success |-> FALSE, filePath |-> NoPath, error |-> error]
Saved(filePath) == [success |-> TRUE, filePath |-> filePath, error |-> ""]

IdleSave ==
  [pc |-> "idle", channel |-> "", content |-> <<"">>, tab |-> "", result |-> NoSaveResult]

\* file:openPath and openFile(filePath) for a text file that exists
openFile(filePath) ==
  /\ Len(opened) < MaxOpened
  /\ watch.lastId < MaxWatchers
  /\ currentFilePath' = filePath
  /\ opened' = Append(opened, [content |-> disk[filePath], filePath |-> filePath])
  /\ watch' = setupFileWatcher(watch, filePath)
  /\ UNCHANGED <<tabs, activeTabId, disk, saveH>>
  /\ UNCHANGED <<newTabSent, file, pullH, pushH>>
  /\ UNCHANGED <<appVars, panelVars, sessionVars>>
  /\ UNCHANGED <<parserVars, editorVars, mergeVars>>

OpenPath == \E filePath \in FilePaths : openFile(filePath)

\* onOpened: openFileInTab(data.filePath, data.content)
openFileInTab(openFilePath, fileContent) ==
  LET existingTab == FindTabByPath(openFilePath)
  IN IF existingTab # 0
       THEN /\ activeTabId' = tabs[existingTab].id
            /\ tabs' = tabs
       ELSE /\ tabs' = Append(tabs, createFileTab(openFilePath, fileContent))
            /\ activeTabId' = createFileTab(openFilePath, fileContent).id

OnOpened ==
  /\ opened # <<>>
  /\ openFileInTab(Head(opened).filePath, Head(opened).content)
  /\ opened' = Tail(opened)
  /\ UNCHANGED <<disk, saveH, watch>>
  /\ UNCHANGED <<parserVars, syncVars, editorVars, mergeVars>>

switchToTab(tabId) ==
  /\ FindTabById(tabId) # 0
  /\ activeTabId' = tabId
  /\ UNCHANGED <<tabs, disk, opened, saveH, watch>>
  /\ UNCHANGED <<parserVars, syncVars, editorVars, mergeVars>>

SwitchTab == \E i \in 1..Len(tabs) : switchToTab(tabs[i].id)

updateTabContent(tabId, newContent) ==
  [i \in 1..Len(tabs) |->
     IF tabs[i].id = tabId
       THEN [tabs[i] EXCEPT !.content = newContent,
                            !.isDirty = newContent # tabs[i].savedContent]
       ELSE tabs[i]]

\* the editor reports an edit of the active tab
handleContentChange ==
  /\ activeTabId # ""
  /\ \E newContent \in TypedTexts : tabs' = updateTabContent(activeTabId, newContent)
  /\ UNCHANGED <<activeTabId, disk, opened, saveH, watch>>
  /\ UNCHANGED <<parserVars, syncVars, editorVars, mergeVars>>

\* handleSave up to its await; one save is followed at a time
handleSave ==
  /\ saveH.pc = "idle"
  /\ saveH' = [pc |-> "invoked",
               channel |-> IF ActiveFilePath # NoPath THEN "file:save" ELSE "file:saveAs",
               content |-> ActiveContent,
               tab |-> activeTabId,
               result |-> NoSaveResult]
  /\ UNCHANGED <<tabs, activeTabId, disk, opened, watch>>
  /\ UNCHANGED <<parserVars, syncVars, editorVars, mergeVars>>

\* ipcMain.handle('file:save'): writeFile succeeds or throws
FileSave ==
  /\ saveH.pc = "invoked"
  /\ saveH.channel = "file:save"
  /\ watch.lastId < MaxWatchers
  /\ IF currentFilePath = NoPath
       THEN /\ saveH' = [saveH EXCEPT !.pc = "done", !.result = SaveFailed(E_NOPATH)]
            /\ UNCHANGED <<disk, watch>>
       ELSE \/ /\ disk' = [disk EXCEPT ![currentFilePath] = saveH.content]
               /\ watch' = setupFileWatcher(stopFileWatcher(watch), currentFilePath)
               /\ saveH' = [saveH EXCEPT !.pc = "done", !.result = Saved(currentFilePath)]
            \/ /\ watch' = stopFileWatcher(watch)
               /\ saveH' = [saveH EXCEPT !.pc = "done", !.result = SaveFailed(E_WRITE)]
               /\ UNCHANGED disk
  /\ UNCHANGED <<tabs, activeTabId, opened>>
  /\ UNCHANGED <<parserVars, syncVars, editorVars, mergeVars>>

\* ipcMain.handle('file:saveAs'): the dialog is cancelled or names a path,
\* writeFile succeeds or throws
FileSaveAs ==
  /\ saveH.pc = "invoked"
  /\ saveH.channel = "file:saveAs"
  /\ watch.lastId < MaxWatchers
  /\ \/ /\ saveH' = [saveH EXCEPT !.pc = "done", !.result = SaveFailed(E_CANCELLED)]
        /\ UNCHANGED <<disk, watch, currentFilePath>>
     \/ \E filePath \in FilePaths :
          \/ /\ disk' = [disk EXCEPT ![filePath] = saveH.content]
             /\ currentFilePath' = filePath
             /\ watch' = setupFileWatcher(watch, filePath)
             /\ saveH' = [saveH EXCEPT !.pc = "done", !.result = Saved(filePath)]
          \/ /\ saveH' = [saveH EXCEPT !.pc = "done", !.result = SaveFailed(E_WRITE)]
             /\ UNCHANGED <<disk, watch, currentFilePath>>
  /\ UNCHANGED <<tabs, activeTabId, opened>>
  /\ UNCHANGED <<newTabSent, file, pullH, pushH>>
  /\ UNCHANGED <<appVars, panelVars, sessionVars>>
  /\ UNCHANGED <<parserVars, editorVars, mergeVars>>

markTabSaved(tabId, newFilePath) ==
  /\ tabs' = [i \in 1..Len(tabs) |->
                IF tabs[i].id # tabId THEN tabs[i]
                ELSE IF newFilePath # NoPath
                  THEN [tabs[i] EXCEPT !.savedContent = tabs[i].content,
                                       !.isDirty = FALSE,
                                       !.filePath = newFilePath,
                                       !.id = newFilePath]
                  ELSE [tabs[i] EXCEPT !.savedContent = tabs[i].content,
                                       !.isDirty = FALSE]]
  /\ activeTabId' = IF newFilePath # NoPath /\ tabId # newFilePath
                      THEN newFilePath ELSE activeTabId

\* handleSave after its await
HandleSaveResult ==
  /\ saveH.pc = "done"
  /\ IF saveH.result.success /\ saveH.tab # ""
       THEN markTabSaved(saveH.tab, IF saveH.channel = "file:saveAs"
                                      THEN saveH.result.filePath ELSE NoPath)
       ELSE UNCHANGED <<tabs, activeTabId>>
  /\ saveH' = IdleSave
  /\ UNCHANGED <<disk, opened, watch>>
  /\ UNCHANGED <<parserVars, syncVars, editorVars, mergeVars>>

\* the window after it has loaded: one untitled tab, no file tracked
DeskIdle ==
  /\ tabs = <<createUntitledTab>>
  /\ activeTabId = createUntitledTab.id
  /\ disk = DiskStart
  /\ opened = <<>>
  /\ saveH = IdleSave
  /\ watch = WatchIdle

\* ------------------------------------------------------------------------
\* The external merge of the ConflictResolver (ConflictResolver.tsx and the
\* ai:merge, ai:getSettings, ai:setSettings handlers)
\* ------------------------------------------------------------------------
\* DEFAULT_AI_SETTINGS, of which only the apiKey matters to the handlers
DEFAULT_AI_SETTINGS == [apiKey |-> ""]
\* the keys the settings panel saves
ApiKeys == {"", "sk-1"}

E_NOKEY == "API key not configured"
E_API == "API error: 401 - Unauthorized"
E_NOANSWER == "No response from AI"
E_FETCH == "TypeError: fetch failed"
E_AIFAILED == "Failed to merge with AI"

\* what fetch does: it throws, or it answers with response.ok and with
\* data.choices?.[0]?.message?.content, Null for undefined
Answers ==
  {[threw |-> TRUE, ok |-> FALSE, content |-> Null],
   [threw |-> FALSE, ok |-> FALSE, content |-> Null],
   [threw |-> FALSE, ok |-> TRUE, content |-> Null],
   [threw |-> FALSE, ok |-> TRUE, content |-> <<"">>],
   [threw |-> FALSE, ok |-> TRUE, content |-> <<" ">>],
   [threw |-> FALSE, ok |-> TRUE, content |-> <<"m", " ">>]}

\* a line of white space only
IsBlank(line) == line \in {"", " "}

RECURSIVE TrimStart(_)
TrimStart(text) ==
  IF text = <<>> THEN <<>>
  ELSE IF IsBlank(Head(text)) THEN TrimStart(Tail(text))
  ELSE text

RECURSIVE TrimEnd(_)
TrimEnd(text) ==
  IF text = <<>> THEN <<>>
  ELSE IF IsBlank(text[Len(text)]) THEN TrimEnd(SubSeq(text, 1, Len(text) - 1))
  ELSE text

\* String.prototype.trim, on whole lines
Trim(text) == JoinLines(TrimEnd(TrimStart(text)))

NoMergeResult == [success |-> FALSE, merged |-> Null, error |-> ""]

\* a handler that reports every failure as a merge to the local text
MergeFailed_AsMerged(error) == [success |-> TRUE, merged |-> <<"a">>, error |-> error]

\* { success: false, error }
MergeFailed(error) == [success |-> FALSE, merged |-> Null, error |-> error]
\* { success: true, merged }
Merged(merged) == [success |-> TRUE, merged |-> merged, error |-> ""]

NoSection == [id |-> -1, localContent |-> Null, remoteContent |-> Null]
\* the invocation keeps, for the record, the index that was current when its
\* result was handled (`handledAt`, -1 before)
IdleMerge ==
  [pc |-> "idle", section |-> NoSection, result |-> NoMergeResult, handledAt |-> -1]
IdleSet == [pc |-> "idle", settings |-> DEFAULT_AI_SETTINGS]

\* the effect that loads the settings when the resolver has mounted
LoadAiSettings ==
  /\ resolver # <<>>
  /\ aiSettings = <<>>
  /\ aiSettings' = <<aiStore>>
  /\ UNCHANGED <<currentIndex, aiLoading, aiError, showAiSettings, aiStore, aiH, setH>>
  /\ UNCHANGED <<parserVars, syncVars, editorVars, deskVars>>

\* the settings button: setShowAiSettings(!showAiSettings)
ToggleAiSettings ==
  /\ resolver # <<>>
  /\ showAiSettings' = ~showAiSettings
  /\ UNCHANGED <<currentIndex, aiLoading, aiError, aiSettings, aiStore, aiH, setH>>
  /\ UNCHANGED <<parserVars, syncVars, editorVars, deskVars>>

\* handleSaveAiSettings up to its await; the panel shows once the settings
\* have loaded
handleSaveAiSettings ==
  /\ resolver # <<>>
  /\ showAiSettings /\ aiSettings # <<>>
  /\ setH.pc = "idle"
  /\ \E apiKey \in ApiKeys : setH' = [pc |-> "invoked", settings |-> [apiKey |-> apiKey]]
  /\ UNCHANGED <<currentIndex, aiLoading, aiError, showAiSettings, aiSettings,
                 aiStore, aiH>>
  /\ UNCHANGED <<parserVars, syncVars, editorVars, deskVars>>

\* ipcMain.handle('ai:setSettings')
SetSettingsHandler ==
  /\ setH.pc = "invoked"
  /\ aiStore' = setH.settings
  /\ setH' = [setH EXCEPT !.pc = "done"]
  /\ UNCHANGED <<currentIndex, aiLoading, aiError, showAiSettings, aiSettings, aiH>>
  /\ UNCHANGED <<parserVars, syncVars, editorVars, deskVars>>

\* handleSaveAiSettings after its await: setAiSettings(updated)
HandleSaveAiSettingsResult ==
  /\ setH.pc = "done"
  /\ aiSettings' = <<setH.settings>>
  /\ setH' = IdleSet
  /\ UNCHANGED <<currentIndex, aiLoading, aiError, showAiSettings, aiStore, aiH>>
  /\ UNCHANGED <<parserVars, syncVars, editorVars, deskVars>>

handlePrevious ==
  /\ resolver # <<>>
  /\ currentIndex' = IF currentIndex - 1 > 0 THEN currentIndex - 1 ELSE 0
  /\ UNCHANGED <<aiLoading, aiError, showAiSettings, aiSettings, aiStore, aiH, setH>>
  /\ UNCHANGED <<parserVars, syncVars, editorVars, deskVars>>

handleNext ==
  /\ resolver # <<>>
  /\ currentIndex' = IF Len(resolver[1].sections) - 1 < currentIndex + 1
                       THEN Len(resolver[1].sections) - 1 ELSE currentIndex + 1
  /\ UNCHANGED <<aiLoading, aiError, showAiSettings, aiSettings, aiStore, aiH, setH>>
  /\ UNCHANGED <<parserVars, syncVars, editorVars, deskVars>>

\* handleAiMerge up to its await; the button is disabled while aiLoading
handleAiMerge ==
  /\ resolver # <<>>
  /\ ~aiLoading
  /\ IF aiSettings = <<>> \/ aiSettings[1].apiKey = ""
       THEN /\ showAiSettings' = TRUE
            /\ UNCHANGED <<aiLoading, aiError, aiH>>
       ELSE /\ aiLoading' = TRUE
            /\ aiError' = ""
            /\ aiH' = [pc |-> "invoked",
                       section |-> [id |-> CurrentSection.id,
                                    localContent |-> CurrentSection.localContent,
                                    remoteContent |-> CurrentSection.remoteContent],
                       result |-> NoMergeResult,
                       handledAt |-> -1]
            /\ UNCHANGED showAiSettings
  /\ UNCHANGED <<currentIndex, aiSettings, aiStore, setH>>
  /\ UNCHANGED <<parserVars, syncVars, editorVars, deskVars>>

\* ipcMain.handle('ai:merge', localContent, remoteContent)
AiMergeHandler ==
  /\ aiH.pc = "invoked"
  /\ IF aiStore.apiKey = ""
       THEN aiH' = [aiH EXCEPT !.pc = "done", !.result = MergeFailed(E_NOKEY)]
       ELSE \E answer \in Answers :
              aiH' = [aiH EXCEPT
                        !.pc = "done",
                        !.result =
                          IF answer.threw THEN MergeFailed(E_FETCH)
                          ELSE IF ~answer.ok THEN MergeFailed(E_API)
                          ELSE IF answer.content \in {Null, <<"">>}
                            THEN MergeFailed(E_NOANSWER)
                          ELSE Merged(Trim(answer.content))]
  /\ UNCHANGED <<currentIndex, aiLoading, aiError, showAiSettings, aiSettings,
                 aiStore, setH>>
  /\ UNCHANGED <<parserVars, syncVars, editorVars, deskVars>>

\* a handleAiMerge that resolves the section that is current when the
\* response arrives
HandleAiMergeResult_Current ==
  /\ aiH.pc = "done"
  /\ IF aiH.result.success /\ Truthy(aiH.result.merged)
       THEN /\ resolver' = <<resolveSection(resolver[1], CurrentSection.id,
                                            aiH.result.merged)>>
            /\ aiError' = ""
       ELSE /\ aiError' = IF aiH.result.error # "" THEN aiH.result.error
                          ELSE E_AIFAILED
            /\ UNCHANGED resolver
  /\ aiLoading' = FALSE
  /\ aiH' = [aiH EXCEPT !.pc = "idle", !.handledAt = currentIndex]
  /\ UNCHANGED <<currentIndex, showAiSettings, aiSettings, aiStore, setH>>
  /\ UNCHANGED <<mainVars, appVars, panelVars>>
  /\ UNCHANGED <<otherFile, writeH, abortH, readH, resolvePc, cancelPc>>
  /\ UNCHANGED <<parserVars, editorVars, deskVars>>

\* handleAiMerge after its await: result.success && result.merged, else the
\* error; finally setAiLoading(false)
HandleAiMergeResult ==
  /\ aiH.pc = "done"
  /\ IF aiH.result.success /\ Truthy(aiH.result.merged)
       THEN /\ resolver' = <<resolveSection(resolver[1], aiH.section.id,
                                            aiH.result.merged)>>
            /\ aiError' = ""
       ELSE /\ aiError' = IF aiH.result.error # "" THEN aiH.result.error
                          ELSE E_AIFAILED
            /\ UNCHANGED resolver
  /\ aiLoading' = FALSE
  /\ aiH' = [aiH EXCEPT !.pc = "idle", !.handledAt = currentIndex]
  /\ UNCHANGED <<currentIndex, showAiSettings, aiSettings, aiStore, setH>>
  /\ UNCHANGED <<mainVars, appVars, panelVars>>
  /\ UNCHANGED <<otherFile, writeH, abortH, readH, resolvePc, cancelPc>>
  /\ UNCHANGED <<parserVars, editorVars, deskVars>>

\* the resolver before it has mounted
MergeIdle ==
  /\ currentIndex = 0
  /\ aiLoading = FALSE
  /\ aiError = ""
  /\ showAiSettings = FALSE
  /\ aiSettings = <<>>
  /\ aiStore = DEFAULT_AI_SETTINGS
  /\ aiH = IdleMerge
  /\ setH = IdleSet

SyncInit ==
  /\ EditorIdle
  /\ DeskIdle
  /\ MergeIdle
  /\ rawText = CleanText
  /\ fileConflict = <<>>
  /\ rebuilt = Null
  /\ lastCall = NoCall
  /\ currentFilePath = NoPath
  /\ newTabSent = FALSE
  /\ file \in FileTexts
  /\ pullH = IdleHandler
  /\ pushH = IdleHandler
  /\ tabFilePath = NoPath
  /\ tabContent = <<"">>
  /\ isGitRepo = FALSE
  /\ behindCount = 0
  /\ isPulling = FALSE
  /\ pullPc = "idle"
  /\ activeConflict = <<>>
  /\ dialog = ""
  /\ pollPc = "idle"
  /\ isPushing = FALSE
  /\ pushPc = "idle"
  /\ gitError = ""
  /\ gitStatus = ""
  /\ otherFile = CleanText
  /\ writeH = IdleWriteHandler
  /\ abortH = IdleHandler
  /\ readH = IdleHandler
  /\ resolvePc = "idle"
  /\ cancelPc = "idle"
  /\ resolver = <<>>

SyncNext ==
  \/ OpenFile \/ HandleNewTab \/ OnNew
  \/ HandlePull \/ HandlePullResult \/ HandlePullDialogClosed
  \/ PullHandlerPull \/ PullHandlerRead \/ PullHandlerReadConflict
  \/ CheckForUpdates \/ CheckForUpdatesFetched \/ CheckForUpdatesStatus
  \/ HandlePush \/ HandlePushAdded \/ HandlePushCommitted \/ HandlePushResult
  \/ PushHandlerPush \/ PushHandlerStash \/ PushHandlerPull \/ PushHandlerStashPop
  \/ PushHandlerRead \/ PushHandlerRetry \/ PushHandlerReadConflict

SpecSync == SyncInit /\ [][SyncNext]_vars

\* a resolution session on one file: a pull that ends in a conflict, the
\* resolver, Save All and Cancel, each free to start while the other runs
SessionNext ==
  \/ OpenFile
  \/ HandlePull \/ HandlePullResult \/ HandlePullDialogClosed
  \/ PullHandlerPull \/ PullHandlerRead \/ PullHandlerReadConflict
  \/ CheckForUpdates \/ CheckForUpdatesFetched \/ CheckForUpdatesStatus
  \/ HandleKeep \/ HandleSaveAll \/ HandleConflictResolved \/ HandleConflictResolvedClosed
  \/ WriteHandlerWrite \/ WriteHandlerAdd
  \/ HandleConflictCancel \/ HandleConflictCancelAnswered \/ HandleConflictCancelAborted
  \/ HandleConflictCancelRead
  \/ AbortHandlerMerge \/ ReadHandlerRead

SpecSession == SyncInit /\ [][SessionNext]_vars

\* finalizing with two files at hand: File > Open stays available while the
\* resolver is shown
FinalizeNext ==
  \/ OpenFile \/ OpenOtherFile
  \/ HandlePull \/ HandlePullResult \/ HandlePullDialogClosed
  \/ PullHandlerPull \/ PullHandlerRead \/ PullHandlerReadConflict
  \/ CheckForUpdates \/ CheckForUpdatesFetched \/ CheckForUpdatesStatus
  \/ HandleKeep \/ HandleSaveAll \/ HandleConflictResolved \/ HandleConflictResolvedClosed
  \/ WriteHandlerWrite \/ WriteHandlerAdd

SpecFinalize == SyncInit /\ [][FinalizeNext]_vars

\* ------------------------------------------------------------------------
\* The conflict library driven on bounded inputs: specification
\* ------------------------------------------------------------------------
\* the synchronisation side at rest, no file open
SyncIdle ==
  /\ currentFilePath = NoPath
  /\ newTabSent = FALSE
  /\ file = CleanText
  /\ pullH = IdleHandler
  /\ pushH = IdleHandler
  /\ tabFilePath = NoPath
  /\ tabContent = <<"">>
  /\ isGitRepo = FALSE
  /\ behindCount = 0
  /\ isPulling = FALSE
  /\ pullPc = "idle"
  /\ activeConflict = <<>>
  /\ dialog = ""
  /\ pollPc = "idle"
  /\ isPushing = FALSE
  /\ pushPc = "idle"
  /\ gitError = ""
  /\ gitStatus = ""
  /\ otherFile = CleanText
  /\ writeH = IdleWriteHandler
  /\ abortH = IdleHandler
  /\ readH = IdleHandler
  /\ resolvePc = "idle"
  /\ cancelPc = "idle"
  /\ resolver = <<>>

ParserInit ==
  /\ rawText \in Texts
  /\ fileConflict = <<>>
  /\ rebuilt = Null
  /\ lastCall = NoCall
  /\ SyncIdle
  /\ EditorIdle
  /\ DeskIdle
  /\ MergeIdle

\* hasConflictMarkers(content), asked before the text is parsed
HasConflictMarkers ==
  /\ fileConflict = <<>>
  /\ lastCall = NoCall
  /\ lastCall' = LibCall("hasConflictMarkers", -1, Null,
                         IF hasConflictMarkers(rawText) THEN "true" ELSE "false",
                         Null, FALSE)
  /\ UNCHANGED <<rawText, fileConflict, rebuilt>>
  /\ UNCHANGED <<syncVars, editorVars, deskVars, mergeVars>>

ParseConflicts ==
  /\ fileConflict = <<>>
  /\ fileConflict' = <<parseConflicts(rawText, TestPath)>>
  /\ lastCall' = LibCall("parseConflicts", -1, Null, "document", Null, FALSE)
  /\ UNCHANGED <<rawText, rebuilt>>
  /\ UNCHANGED <<syncVars, editorVars, deskVars, mergeVars>>

ResolveSection ==
  /\ fileConflict # <<>>
  /\ \E sectionId \in 0..MaxId :
       \E text \in ResolutionTexts(fileConflict[1], sectionId) :
         /\ fileConflict' = <<resolveSection(fileConflict[1], sectionId, text)>>
         /\ lastCall' =
              LibCall("resolveSection", sectionId, text, "document",
                      ResolvedContentOf(fileConflict[1], sectionId),
                      /\ lastCall.op = "resolveSection"
                      /\ lastCall.sectionId = sectionId
                      /\ lastCall.text = text)
  /\ rebuilt' = Null
  /\ UNCHANGED rawText
  /\ UNCHANGED <<syncVars, editorVars, deskVars, mergeVars>>

RebuildFromConflicts ==
  /\ fileConflict # <<>>
  /\ rebuilt' = rebuildFromConflicts(fileConflict[1])
  /\ lastCall' = LibCall("rebuildFromConflicts", -1, Null, "text", Null, FALSE)
  /\ UNCHANGED <<rawText, fileConflict>>
  /\ UNCHANGED <<syncVars, editorVars, deskVars, mergeVars>>

ParserNext ==
  HasConflictMarkers \/ ParseConflicts \/ ResolveSection \/ RebuildFromConflicts

SpecParser == ParserInit /\ [][ParserNext]_vars

\* ------------------------------------------------------------------------
\* Tabs, saving and the file watcher: specification
\* ------------------------------------------------------------------------
DeskInit ==
  /\ rawText = CleanText
  /\ fileConflict = <<>>
  /\ rebuilt = Null
  /\ lastCall = NoCall
  /\ SyncIdle
  /\ EditorIdle
  /\ DeskIdle
  /\ MergeIdle

DeskNext ==
  \/ OpenPath \/ OnOpened \/ SwitchTab \/ handleContentChange
  \/ handleSave \/ FileSave \/ FileSaveAs \/ HandleSaveResult

SpecDesk == DeskInit /\ [][DeskNext]_vars

\* ------------------------------------------------------------------------
\* The resolver with its external merge: specification
\* ------------------------------------------------------------------------
\* the conflicted texts a pull leaves in the tracked file
ConflictTexts == {SingleConflictText, MultiConflictText}

\* the window once handlePull has opened the session on a conflicted pull of
\* DocPath
SessionOpen(text) ==
  /\ currentFilePath = DocPath
  /\ newTabSent = FALSE
  /\ file = text
  /\ pullH = IdleHandler
  /\ pushH = IdleHandler
  /\ tabFilePath = DocPath
  /\ tabContent = CleanText
  /\ isGitRepo = TRUE
  /\ behindCount = 1
  /\ isPulling = FALSE
  /\ pullPc = "idle"
  /\ activeConflict = <<parseConflicts(text, DocPath)>>
  /\ dialog = ""
  /\ pollPc = "idle"
  /\ isPushing = FALSE
  /\ pushPc = "idle"
  /\ gitError = ""
  /\ gitStatus = ""
  /\ otherFile = CleanText
  /\ writeH = IdleWriteHandler
  /\ abortH = IdleHandler
  /\ readH = IdleHandler
  /\ resolvePc = "idle"
  /\ cancelPc = "idle"
  /\ resolver = <<parseConflicts(text, DocPath)>>

ResolverInit ==
  /\ rawText = CleanText
  /\ fileConflict = <<>>
  /\ rebuilt = Null
  /\ lastCall = NoCall
  /\ \E text \in ConflictTexts : SessionOpen(text)
  /\ EditorIdle
  /\ DeskIdle
  /\ MergeIdle

ResolverNext ==
  \/ LoadAiSettings \/ ToggleAiSettings
  \/ handleSaveAiSettings \/ SetSettingsHandler \/ HandleSaveAiSettingsResult
  \/ handlePrevious \/ handleNext \/ HandleKeep
  \/ handleAiMerge \/ AiMergeHandler \/ HandleAiMergeResult

SpecResolver == ResolverInit /\ [][ResolverNext]_vars

\* ------------------------------------------------------------------------
\* The editor: toast and double-backspace deletion: specification
\* ------------------------------------------------------------------------
EditorInit ==
  /\ EditorIdle
  /\ DeskIdle
  /\ MergeIdle
  /\ rawText = CleanText
  /\ fileConflict = <<>>
  /\ rebuilt = Null
  /\ lastCall = NoCall
  /\ SyncIdle

EditorNext ==
  \/ ShowToast \/ HideToast \/ TimerFires \/ Tick
  \/ Backspace \/ TypeText \/ MoveCursor

SpecEditor == EditorInit /\ [][EditorNext]_vars

\* ------------------------------------------------------------------------
\* Properties of the sync operations
\* ------------------------------------------------------------------------
\* the indices of the calls of one kind in a call log
CallsOf(calls, call) == {i \in 1..Len(calls) : calls[i].call = call}

\* the classifications the protocol is stated with
DivergenceKeywords == {"rejected", "non-fast-forward", "fetch first", "behind"}
MergeConflictKeywords == {"CONFLICT", "Merge conflict"}
Diverged(out) == out # "ok" /\ Keywords(out) \cap DivergenceKeywords # {}
MergeConflict(out) == out # "ok" /\ Keywords(out) \cap MergeConflictKeywords # {}
HasStartAndEndMarker(content) ==
  /\ \E i \in 1..Len(content) : content[i] \in {"<<<<<<< HEAD", "<<<<<<< LOCAL"}
  /\ \E i \in 1..Len(content) : content[i] \in {">>>>>>> origin/main", ">>>>>>> REMOTE"}

NoMarkerLine(content) ==
  \A i \in 1..Len(content) :
    content[i] \notin {"<<<<<<< HEAD", "<<<<<<< LOCAL", "=======",
                       ">>>>>>> origin/main", ">>>>>>> REMOTE"}

\* an operation is in flight from its start until its handler has returned
PullInFlight == pullH.pc \notin {"idle", "done"}
PushInFlight == pushH.pc \notin {"idle", "done"}
PollInFlight == pollPc # "idle"
InFlight ==
  (IF PullInFlight THEN {"pull"} ELSE {}) \cup (IF PushInFlight THEN {"push"} ELSE {})
    \cup (IF PollInFlight THEN {"poll"} ELSE {})

\* C1: at most one sync operation (pull, push or the periodic fetch/status
\* check) is in flight at any time, so their backend calls never interleave.
C1_OneSyncInFlight == Cardinality(InFlight) <= 1

\* C2: in the recovery of a rejected push, pull() is called only after
\* stash() succeeded, stashPop() only after pull(), and whenever stash()
\* succeeded and pull() succeeded or failed with a merge conflict, stashPop()
\* has been called when the operation returns.
C2_RecoveryOrder ==
  pushH.pc = "done" =>
    LET calls == pushH.calls IN
    /\ \A i \in CallsOf(calls, "pull") :
         \E j \in CallsOf(calls, "stash") : j < i /\ calls[j].out = "ok"
    /\ \A i \in CallsOf(calls, "stashPop") : \E j \in CallsOf(calls, "pull") : j < i
    /\ \A i \in CallsOf(calls, "pull") :
         (calls[i].out = "ok" \/ MergeConflict(calls[i].out))
           => \E k \in CallsOf(calls, "stashPop") : k > i

\* the recovery ran up to the stash pop: push rejected, stash and pull fine
RecoveredToPop(calls) ==
  /\ Len(calls) >= 5
  /\ calls[1].call = "push" /\ Diverged(calls[1].out)
  /\ calls[2].call = "stash" /\ calls[2].out = "ok"
  /\ calls[3].call = "pull" /\ calls[3].out = "ok"
  /\ calls[4].call = "stashPop"
  /\ calls[5].call = "readFile" /\ calls[5].out = "ok"

\* C3: when the first push is rejected as diverged, stash and pull succeed
\* and the file read after the stash pop contains conflict markers, the
\* result is ConflictDetected with exactly that text, and push is not
\* called a second time.
C3_ConflictAfterPop ==
  (pushH.pc = "done" /\ RecoveredToPop(pushH.calls)
     /\ HasStartAndEndMarker(pushH.calls[5].content))
    => /\ pushH.result = WithContent(pushH.calls[5].content, TRUE)
       /\ CallsOf(pushH.calls, "push") = {1}

C3_Witness ==
  /\ pushH.pc = "done" /\ RecoveredToPop(pushH.calls)
  /\ pushH.calls[4].out = "ok"
  /\ pushH.calls[5].content = SingleConflictText
  /\ pushH.result.hasConflicts

\* C4: when the recovery completes and the file read after the stash pop has
\* no conflict markers, push is retried exactly once and the operation
\* returns the outcome of that retry: Success if it succeeded, Failure if it
\* failed, never ConflictDetected.
C4_RetryOutcome ==
  (pushH.pc = "done" /\ RecoveredToPop(pushH.calls) /\ pushH.calls[4].out = "ok"
     /\ NoMarkerLine(pushH.calls[5].content))
    => LET calls == pushH.calls IN
       /\ CallsOf(calls, "push") = {1, 6}
       /\ calls[6].out = "ok" => pushH.result = Pushed
       /\ calls[6].out # "ok" => (~pushH.result.success /\ ~pushH.result.hasConflicts)

\* C5: when the first push fails with an error that has none of the
\* divergence keywords, the result is Failure with that error and no stash,
\* pull, stash pop or second push is made.
C5_FatalPushError ==
  (pushH.pc = "done" /\ Len(pushH.calls) >= 1
     /\ pushH.calls[1].out # "ok" /\ ~Diverged(pushH.calls[1].out))
    => /\ pushH.result = Failed(pushH.calls[1].out)
       /\ Len(pushH.calls) = 1

C5_Witness ==
  /\ pushH.pc = "done"
  /\ pushH.calls = <<[call |-> "push", out |-> E_PUSHREFS, content |-> Null]>>
  /\ pushH.result = Failed(E_PUSHREFS)

\* C6 as stated: pull() is called exactly once, and pull succeeded gives
\* Success with the text read after the pull, pull failed with a merge
\* conflict gives ConflictDetected with the text on disk, pull failed
\* otherwise gives Failure with the unchanged error.
C6_PullOutcome ==
  pullH.pc = "done" =>
    LET calls == pullH.calls IN
    /\ CallsOf(calls, "pull") = {1}
    /\ calls[1].out = "ok" =>
         /\ Len(calls) = 2 /\ calls[2].call = "readFile"
         /\ pullH.result = WithContent(calls[2].content, FALSE)
         /\ calls[2].content # Null
    /\ MergeConflict(calls[1].out) =>
         /\ Len(calls) = 2 /\ calls[2].call = "readFile"
         /\ pullH.result = WithContent(calls[2].content, TRUE)
         /\ calls[2].content # Null
    /\ (calls[1].out # "ok" /\ ~MergeConflict(calls[1].out)) =>
         /\ Len(calls) = 1
         /\ pullH.result = Failed(calls[1].out)

\* C6 amended: pull() is called at most once, and not at all only when no
\* file is open (Failure 'No file open'); after a successful or a
\* conflicting pull the file is read once, and the result is Success resp.
\* ConflictDetected with the text read, or Failure with the read error when
\* the read fails; pull failed otherwise gives Failure with the unchanged
\* error and no read.
C6_PullOutcomeAmended ==
  pullH.pc = "done" =>
    LET calls == pullH.calls IN
    IF calls = <<>> THEN pullH.result = Failed(E_NOFILE)
    ELSE
      /\ CallsOf(calls, "pull") = {1}
      /\ (calls[1].out = "ok" \/ MergeConflict(calls[1].out)) =>
           /\ Len(calls) = 2 /\ calls[2].call = "readFile"
           /\ calls[2].out = "ok" =>
                pullH.result = WithContent(calls[2].content, MergeConflict(calls[1].out))
           /\ calls[2].out # "ok" => pullH.result = Failed(calls[2].out)
      /\ (calls[1].out # "ok" /\ ~MergeConflict(calls[1].out)) =>
           /\ Len(calls) = 1
           /\ pullH.result = Failed(calls[1].out)

C6_Witness ==
  /\ pullH.pc = "done"
  /\ Len(pullH.calls) = 2
  /\ pullH.calls[1] = [call |-> "pull", out |-> E_CONFLICT, content |-> Null]
  /\ pullH.calls[2].out = "ok"
  /\ pullH.result = WithContent(SingleConflictText, TRUE)

\* ------------------------------------------------------------------------
\* Properties of the conflict library
\* ------------------------------------------------------------------------
RECURSIVE WellFormedFrom(_, _)
\* every start marker is followed by one separator and then an end marker,
\* with no start marker in between; `mode` is the position of the scan
WellFormedFrom(lines, mode) ==
  IF lines = <<>> THEN mode = "outside"
  ELSE IF Head(lines) = StartLine
    THEN mode = "outside" /\ WellFormedFrom(Tail(lines), "inLocal")
  ELSE IF Head(lines) = SepLine /\ mode # "outside"
    THEN mode = "inLocal" /\ WellFormedFrom(Tail(lines), "inRemote")
  ELSE IF Head(lines) = EndLine /\ mode # "outside"
    THEN mode = "inRemote" /\ WellFormedFrom(Tail(lines), "outside")
  ELSE WellFormedFrom(Tail(lines), mode)

WellFormed(text) == WellFormedFrom(text, "outside")

NumBlocks(text) == Cardinality({i \in 1..Len(text) : text[i] = StartLine})

RECURSIVE SideLinesFrom(_, _, _)
\* the lines of a well-formed text with every block replaced by the lines of
\* one of its sides ("inLocal" or "inRemote")
SideLinesFrom(lines, mode, side) ==
  IF lines = <<>> THEN <<>>
  ELSE IF Head(lines) = StartLine THEN SideLinesFrom(Tail(lines), "inLocal", side)
  ELSE IF Head(lines) = SepLine /\ mode # "outside"
    THEN SideLinesFrom(Tail(lines), "inRemote", side)
  ELSE IF Head(lines) = EndLine /\ mode # "outside"
    THEN SideLinesFrom(Tail(lines), "outside", side)
  ELSE IF mode \in {"outside", side}
    THEN <<Head(lines)>> \o SideLinesFrom(Tail(lines), mode, side)
  ELSE SideLinesFrom(Tail(lines), mode, side)

WithSide(text, side) == JoinLines(SideLinesFrom(text, "outside", side))

AllResolvedToLocal(c) ==
  \A i \in 1..Len(c.sections) : c.sections[i].resolvedContent = c.sections[i].localContent

AllResolvedToRemote(c) ==
  \A i \in 1..Len(c.sections) : c.sections[i].resolvedContent = c.sections[i].remoteContent

\* C7: every document parseConflicts returns has one more literal segment
\* (nonConflictingParts) than it has sections, whatever the input text.
C7_SegmentCount ==
  fileConflict # <<>> =>
    Len(fileConflict[1].nonConflictingParts) = Len(fileConflict[1].sections) + 1

\* C8: for a text with one or more well-formed conflict blocks, parsing it,
\* resolving every section to its own local (remote) content and rebuilding
\* gives the text with every block replaced by its local (remote) lines.
C8_RoundTrip ==
  (rebuilt # Null /\ WellFormed(rawText) /\ NumBlocks(rawText) >= 1) =>
    /\ AllResolvedToLocal(fileConflict[1]) => rebuilt = WithSide(rawText, "inLocal")
    /\ AllResolvedToRemote(fileConflict[1]) => rebuilt = WithSide(rawText, "inRemote")

\* C9: resolveSection called with a section id that matches no section of
\* the document fails with NotFound and returns no document.
C9_NotFound ==
  (lastCall.op = "resolveSection" /\ ~HasSection(fileConflict[1], lastCall.sectionId))
    => lastCall.result = "NotFound"

\* C10: the stored isResolved flag of every document produced by
\* parseConflicts or resolveSection is true exactly when every section has a
\* non-null resolvedContent, documents without sections included.
C10_ResolvedFlag ==
  fileConflict # <<>> =>
    (fileConflict[1].isResolved <=> allConflictsResolved(fileConflict[1]))

\* C11: over any sequence of resolveSection calls a section with a non-null
\* resolvedContent never becomes null again (re-resolving overwrites the
\* text), and once isResolved is true it stays true.
C11_Monotonic ==
  [][(fileConflict # <<>> /\ fileConflict' # <<>>) =>
       LET before == fileConflict[1]
           after == fileConflict'[1]
       IN /\ Len(after.sections) = Len(before.sections)
          /\ \A i \in 1..Len(before.sections) :
               before.sections[i].resolvedContent # Null
                 => after.sections[i].resolvedContent # Null
          /\ before.isResolved => after.isResolved]_vars

\* a resolved section of a fully resolved document has been resolved again,
\* to another text
C11_Witness ==
  /\ lastCall.op = "resolveSection"
  /\ lastCall.prev # Null /\ lastCall.prev # lastCall.text
  /\ Len(fileConflict[1].sections) = 2
  /\ ResolvedContentOf(fileConflict[1], lastCall.sectionId) = lastCall.text
  /\ fileConflict[1].isResolved

\* C12: resolveSection(id, X) on an existing section, applied to the document
\* that resolveSection(id, X) returned, returns an equal document.
C12_Idempotent ==
  [][(/\ lastCall'.op = "resolveSection" /\ lastCall'.again
      /\ HasSection(fileConflict[1], lastCall'.sectionId))
       => fileConflict' = fileConflict]_vars

C12_Witness ==
  /\ lastCall.op = "resolveSection" /\ lastCall.again
  /\ HasSection(fileConflict[1], lastCall.sectionId)
  /\ lastCall.prev = lastCall.text
  /\ ~fileConflict[1].isResolved

\* the index of the k-th start marker of a text
KthStart(text, k) ==
  CHOOSE i \in 1..Len(text) :
    text[i] = StartLine /\ Cardinality({j \in 1..i : text[j] = StartLine}) = k

\* the index of the first occurrence of a line after index i
FirstAfter(text, line, i) ==
  CHOOSE j \in (i + 1)..Len(text) :
    text[j] = line /\ \A l \in (i + 1)..(j - 1) : text[l] # line

\* the k-th block of a well-formed text: its start, separator and end index
BlockOf(text, k) ==
  LET s == KthStart(text, k)
      m == FirstAfter(text, SepLine, s)
      e == FirstAfter(text, EndLine, m)
  IN [start |-> s, sep |-> m, end |-> e]

\* the lines a..b of a text joined with newline, '' when there are none
Slice(text, a, b) == IF a > b THEN <<"">> ELSE SubSeq(text, a, b)

\* C13: for a text of literal lines and N >= 0 well-formed conflict blocks,
\* parseConflicts returns N sections in source order with ids 0..N-1, each
\* with the lines between start marker and separator as localContent, the
\* lines between separator and end marker as remoteContent and a null
\* resolvedContent, and N+1 literal segments, the runs of lines outside the
\* blocks; for N = 0 that is no section and the text as the one segment.
C13_ParseShape ==
  (lastCall.op = "parseConflicts" /\ WellFormed(rawText)) =>
    LET c == fileConflict[1]
        N == NumBlocks(rawText)
    IN /\ Len(c.sections) = N
       /\ Len(c.nonConflictingParts) = N + 1
       /\ \A k \in 1..N :
            LET b == BlockOf(rawText, k) IN
            /\ c.sections[k].id = k - 1
            /\ c.sections[k].localContent = Slice(rawText, b.start + 1, b.sep - 1)
            /\ c.sections[k].remoteContent = Slice(rawText, b.sep + 1, b.end - 1)
            /\ c.sections[k].resolvedContent = Null
       /\ \A k \in 1..(N + 1) :
            c.nonConflictingParts[k] =
              Slice(rawText,
                    IF k = 1 THEN 1 ELSE BlockOf(rawText, k - 1).end + 1,
                    IF k = N + 1 THEN Len(rawText) ELSE BlockOf(rawText, k).start - 1)
       /\ N = 0 => (c.sections = <<>> /\ c.nonConflictingParts = <<rawText>>)

C13_Witness ==
  /\ lastCall.op = "parseConflicts"
  /\ rawText = MultiConflictText
  /\ Len(fileConflict[1].sections) = 2
  /\ fileConflict[1].sections[2].localContent = <<"b">>
  /\ fileConflict[1].nonConflictingParts = <<(<<"a">>), (<<"b">>), (<<"a">>)>>

OccursIn(text, lines) == \E i \in 1..Len(text) : text[i] \in lines

\* C14: hasConflictMarkers is true only if a start marker, the separator and
\* an end marker all occur in the text; a text that lacks one of the three
\* gives false.
C14_AllThreeMarkers ==
  lastCall.op = "hasConflictMarkers" =>
    (lastCall.result = "true" =>
       /\ OccursIn(rawText, {"<<<<<<< HEAD", "<<<<<<< LOCAL"})
       /\ OccursIn(rawText, {"======="})
       /\ OccursIn(rawText, {">>>>>>> origin/main", ">>>>>>> REMOTE"}))

\* start marker and separator but no end marker
C14_Witness ==
  /\ lastCall.op = "hasConflictMarkers"
  /\ rawText = <<StartLine, "a", SepLine, "b">>
  /\ lastCall.result = "false"

\* what rebuild emits for a section
Emitted(section) ==
  IF section.resolvedContent # Null THEN section.resolvedContent
  ELSE <<"<<<<<<< LOCAL">> \o section.localContent \o <<"=======">>
         \o section.remoteContent \o <<">>>>>>> REMOTE">>

RECURSIVE Interleaved(_, _)
\* the first n sections, as emitted, between the first n + 1 literal segments
Interleaved(c, n) ==
  IF n = 0 THEN c.nonConflictingParts[1]
  ELSE Interleaved(c, n - 1) \o Emitted(c.sections[n]) \o c.nonConflictingParts[n + 1]

\* C15: rebuildFromConflicts of a document with one literal segment more than
\* sections puts, between the literal segments, the resolvedContent of every
\* resolved section and a conflict block with the labels LOCAL and REMOTE
\* around localContent and remoteContent for every unresolved one; isResolved
\* is false while any section is unresolved.
C15_PartialRebuild ==
  fileConflict # <<>> =>
    LET c == fileConflict[1] IN
    /\ (\E i \in 1..Len(c.sections) : c.sections[i].resolvedContent = Null)
         => ~c.isResolved
    /\ (rebuilt # Null /\ Len(c.nonConflictingParts) = Len(c.sections) + 1)
         => rebuilt = Interleaved(c, Len(c.sections))

\* two sections, only the first resolved
C15_Witness ==
  /\ rawText = MultiConflictText
  /\ fileConflict # <<>>
  /\ fileConflict[1].sections[1].resolvedContent = <<"merged">>
  /\ fileConflict[1].sections[2].resolvedContent = Null
  /\ ~fileConflict[1].isResolved
  /\ rebuilt = <<"a", "merged", "b", "<<<<<<< LOCAL", "b", "=======", "a",
                 ">>>>>>> REMOTE", "a">>

\* ------------------------------------------------------------------------
\* Finalizing and cancelling a resolution session
\* ------------------------------------------------------------------------
\* the path the session was opened for
TrackedPath == resolver[1].filePath

\* C16: finalize is performed only when every section of the session is
\* resolved; it writes the rebuilt text to the tracked path, stages the file
\* with add only after the write has succeeded, and returns success only if
\* the write and the add both succeeded.
C16_Finalize ==
  [][/\ (writeH.pc = "idle" /\ writeH'.pc # "idle") =>
          /\ resolver # <<>>
          /\ \A i \in 1..Len(resolver[1].sections) :
               resolver[1].sections[i].resolvedContent # Null
     /\ (writeH.pc = "writeFile" /\ writeH'.pc = "add") =>
          /\ resolver # <<>>
          /\ writeH.path = TrackedPath
          /\ (IF TrackedPath = OtherPath THEN otherFile' ELSE file') = writeH.content
     /\ (writeH.pc = "writeFile" /\ writeH'.pc = "done") =>
          /\ ~writeH'.result.success
          /\ \A i \in 1..Len(writeH'.calls) : writeH'.calls[i].call # "add"
     /\ (writeH.pc = "add" /\ writeH'.pc = "done" /\ writeH'.result.success) =>
          /\ Len(writeH'.calls) = 2
          /\ writeH'.calls[1] = [call |-> "writeFile", out |-> "ok", content |-> Null]
          /\ writeH'.calls[2] = [call |-> "add", out |-> "ok", content |-> Null]
    ]_vars

\* the steps of handleConflictCancel that drop the session
SessionDiscarded == cancelPc = "read" /\ cancelPc' = "idle" /\ activeConflict' = <<>>

\* C17: cancel calls abortMerge() and then re-reads the file; the session is
\* discarded only if abortMerge() succeeded, and then neither the file nor
\* the content shown for it contains a conflict marker.
C17_CancelOutcome ==
  [][SessionDiscarded =>
       /\ Len(abortH.calls) = 1 /\ abortH.calls[1].call = "abortMerge"
       /\ abortH.result.success
       /\ NoMarkerLine(file')
       /\ NoMarkerLine(tabContent')
    ]_vars

\* the states of a tracked path, read off the renderer and the handlers
Finalizing == resolvePc = "invoked"
Cancelling == cancelPc \in {"abort", "read"}
AwaitingResolution == activeConflict # <<>> /\ ~Finalizing /\ ~Cancelling

\* C18: the path is never finalizing and cancelling at once, and resolve,
\* finalize (git:writeResolution) and cancel (git:abortMerge) take effect
\* only while the session is awaiting resolution: outside that state no
\* section changes, no file is written and no backend call is made.
C18_SessionStates ==
  [][/\ ~(Finalizing' /\ Cancelling')
     /\ (resolver # <<>> /\ resolver' # <<>> /\ resolver' # resolver) => AwaitingResolution
     /\ (writeH.pc = "idle" /\ writeH'.pc # "idle") => AwaitingResolution
     /\ (abortH.pc = "idle" /\ abortH'.pc # "idle") => AwaitingResolution
    ]_vars

\* ------------------------------------------------------------------------
\* Properties of the toast and of the double-backspace deletion
\* ------------------------------------------------------------------------
\* C19: showToast(m, d) makes the toast visible with message m and leaves
\* one hide timer pending, the one it armed, due d ms after the call; at
\* most one hide timer is ever pending; a visible toast is never older than
\* d ms; and a timer hides the toast no earlier than d ms after the most
\* recent showToast.
C19_ToastAutoHide ==
  /\ Cardinality(toast.timers) <= 1
  /\ toast.currentState.visible =>
       /\ toast.currentState.message = toast.shown.message
       /\ toast.currentState.duration = toast.shown.duration
       /\ toast.timers = {[id |-> toast.hideTimeout,
                           due |-> toast.shown.at + toast.shown.duration]}
       /\ now <= toast.shown.at + toast.shown.duration
  /\ (~toast.currentState.visible /\ toast.shown.hiddenBy = "timeout") =>
       /\ now >= toast.shown.at + toast.shown.duration
       /\ toast.timers = {}
  /\ (~toast.currentState.visible /\ toast.shown.at >= 0) =>
       toast.shown.hiddenBy \in {"timeout", "hideToast"}

\* a second toast was shown one second after a first one of two seconds,
\* and it is still visible when the first one's two seconds are over
C19_Witness ==
  /\ toast.timerSeq = 2
  /\ toast.shown.at = 1000
  /\ now = 2000
  /\ toast.currentState = [visible |-> TRUE, message |-> "Copied", duration |-> 2000]
  /\ toast.timers = {[id |-> 2, due |-> 3000]}

\* the nodes of the document
NodeIds(d) == {d[i].id : i \in 1..Len(d)}

\* C20: a deletable block is removed by a backspace only if the previous
\* backspace was at that same block at most 2 seconds before and neither a
\* document change nor a cursor movement occurred since; a first backspace,
\* or one after a timeout or a cursor movement, deletes nothing.
C20_DoubleBackspace ==
  [][\A id \in NodeIds(doc) \ NodeIds(doc') :
       /\ lastBackspace.block = id
       /\ now - lastBackspace.at <= DELETION_TIMEOUT
       /\ ~lastBackspace.changed
       /\ ~lastBackspace.moved
    ]_vars

\* ------------------------------------------------------------------------
\* Properties of the push recovery sequence, continued
\* ------------------------------------------------------------------------
\* the recovery ran up to its pull: push rejected as diverged, stash fine
RecoveredToPull(calls) ==
  /\ Len(calls) >= 3
  /\ calls[1].call = "push" /\ Diverged(calls[1].out)
  /\ calls[2].call = "stash" /\ calls[2].out = "ok"
  /\ calls[3].call = "pull"

\* C21: when pull() of the recovery sequence fails for a reason other than
\* a merge conflict, the result is Failure with that error, and neither
\* stashPop() nor a second push() is called.
C21_FatalPullError ==
  (pushH.pc = "done" /\ RecoveredToPull(pushH.calls)
     /\ pushH.calls[3].out # "ok" /\ ~MergeConflict(pushH.calls[3].out))
    => /\ pushH.result = Failed(pushH.calls[3].out)
       /\ CallsOf(pushH.calls, "stashPop") = {}
       /\ CallsOf(pushH.calls, "push") = {1}

\* an error text that indicates a conflict
ConflictIndicating(out) == out # "ok" /\ Keywords(out) \cap {"CONFLICT", "conflict"} # {}

\* the recovery ran up to a stash pop that failed
PopFailed(calls) ==
  /\ Len(calls) >= 4
  /\ RecoveredToPull(calls) /\ calls[3].out = "ok"
  /\ calls[4].call = "stashPop" /\ calls[4].out # "ok"

\* C22: when stashPop() fails with a conflict-indicating error, the file is
\* read and the result is ConflictDetected carrying its text, and push() is
\* not called again; a stashPop() failure that is not conflict-indicating
\* gives Failure.
C22_PopConflict ==
  (pushH.pc = "done" /\ PopFailed(pushH.calls)) =>
    LET calls == pushH.calls IN
    /\ CallsOf(calls, "push") = {1}
    /\ ConflictIndicating(calls[4].out) =>
         /\ Len(calls) = 5 /\ calls[5].call = "readFile"
         /\ pushH.result.success /\ pushH.result.hasConflicts
         /\ pushH.result.content = FileAt(pushH.path)
    /\ ~ConflictIndicating(calls[4].out) =>
         /\ Len(calls) = 4
         /\ pushH.result = Failed(calls[4].out)

\* C22, amended: when stashPop() fails with a conflict-indicating error, the
\* file is read; if the read succeeds the result is ConflictDetected
\* carrying the text read, if the read fails the result is Failure carrying
\* the read error; push() is not called again. A stashPop() failure that is
\* not conflict-indicating gives Failure with that error and no read.
C22_PopConflictAmended ==
  (pushH.pc = "done" /\ PopFailed(pushH.calls)) =>
    LET calls == pushH.calls IN
    /\ CallsOf(calls, "push") = {1}
    /\ ConflictIndicating(calls[4].out) =>
         /\ Len(calls) = 5 /\ calls[5].call = "readFile"
         /\ calls[5].out = "ok" => pushH.result = WithContent(calls[5].content, TRUE)
         /\ calls[5].out # "ok" => pushH.result = Failed(calls[5].out)
    /\ ~ConflictIndicating(calls[4].out) =>
         /\ Len(calls) = 4
         /\ pushH.result = Failed(calls[4].out)

\* the stash pop failed with a conflict and the text with the markers is
\* returned
C22_Witness ==
  /\ pushH.pc = "done" /\ PopFailed(pushH.calls)
  /\ pushH.calls[4].out = E_CONFLICT
  /\ pushH.result = WithContent(SingleConflictText, TRUE)

\* ------------------------------------------------------------------------
\* Properties of the conflict library, continued
\* ------------------------------------------------------------------------
\* the index of the last start marker of a text, 0 when it has none
LastStart(text) ==
  IF \E i \in 1..Len(text) : text[i] = StartLine
    THEN CHOOSE i \in 1..Len(text) :
           text[i] = StartLine /\ \A j \in (i + 1)..Len(text) : text[j] # StartLine
    ELSE 0

\* the last start marker has no end marker after it
Dangling(text) ==
  LastStart(text) > 0 /\ \A j \in (LastStart(text) + 1)..Len(text) : text[j] # EndLine

\* C24: for a text whose last start marker has no end marker before the end
\* of input, the document parseConflicts returns reports the dangling
\* section: it has a last section that holds, as local or remote content,
\* every line collected after the unmatched start marker.
C24_DanglingSection ==
  (fileConflict # <<>> /\ Dangling(rawText)) =>
    LET c == fileConflict[1]
        n == Len(c.sections)
    IN /\ n >= 1
       /\ \A j \in (LastStart(rawText) + 1)..Len(rawText) :
            rawText[j] # SepLine =>
              OccursIn(c.sections[n].localContent \o c.sections[n].remoteContent,
                       {rawText[j]})

RECURSIVE Terminated(_, _)
\* each start marker is followed by an end marker before the next start
\* marker and before the end of input
Terminated(lines, inBlock) ==
  IF lines = <<>> THEN ~inBlock
  ELSE IF Head(lines) = StartLine THEN ~inBlock /\ Terminated(Tail(lines), TRUE)
  ELSE IF Head(lines) = EndLine THEN Terminated(Tail(lines), FALSE)
  ELSE Terminated(Tail(lines), inBlock)

RECURSIVE ContentLines(_, _)
\* the lines of a text that are not a start marker, the first separator of
\* a block or an end marker, in source order
ContentLines(lines, mode) ==
  IF lines = <<>> THEN <<>>
  ELSE IF Head(lines) = StartLine THEN ContentLines(Tail(lines), "inLocal")
  ELSE IF Head(lines) = EndLine THEN ContentLines(Tail(lines), "outside")
  ELSE IF Head(lines) = SepLine /\ mode = "inLocal"
    THEN ContentLines(Tail(lines), "inRemote")
  ELSE <<Head(lines)>> \o ContentLines(Tail(lines), mode)

RECURSIVE Collected(_, _)
\* the first n + 1 literal segments of a document with the local and the
\* remote content of the first n sections between them
Collected(c, n) ==
  IF n = 0 THEN c.nonConflictingParts[1]
  ELSE Collected(c, n - 1) \o c.sections[n].localContent \o c.sections[n].remoteContent
         \o c.nonConflictingParts[n + 1]

\* the lines of a text without the empty strings that stand for an empty
\* segment and without end markers
Kept(text) == SelectSeq(text, LAMBDA l : l \notin {"", EndLine})

\* C27: for a text in which each start marker is followed by an end marker
\* before the next start marker, every line that is not a start marker, the
\* first separator of its block or an end marker is in exactly one literal
\* segment, localContent or remoteContent, in source order.
C27_NoContentDropped ==
  (fileConflict # <<>> /\ Terminated(rawText, FALSE)) =>
    Kept(Collected(fileConflict[1], Len(fileConflict[1].sections)))
      = ContentLines(rawText, "outside")

\* ------------------------------------------------------------------------
\* Properties of the callers of the sync operations
\* ------------------------------------------------------------------------
\* C26: when pushWithConflictHandling reports a conflict (hasConflicts
\* true), handlePush ends with a resolution session open or with an error
\* shown, and never with the status 'Synced'.
C26_PushConflictSurfaced ==
  [][(pushPc = "invoked" /\ pushPc' = "idle" /\ pushH.result.hasConflicts) =>
       /\ activeConflict' # <<>> \/ gitError' # ""
       /\ gitStatus' # "Synced"
    ]_vars

\* ------------------------------------------------------------------------
\* Properties of finalizing, continued
\* ------------------------------------------------------------------------
\* the file write or the staging step of git:writeResolution returned an error
FinalizeFailed == \E i \in 1..Len(writeH.calls) : writeH.calls[i].out # "ok"

C25_SaveWritesOwnFile ==
  (saveH.pc = "done" /\ saveH.channel = "file:save" /\ saveH.result.success)
    => \A i \in 1..Len(tabs) :
         tabs[i].filePath = saveH.result.filePath => tabs[i].id = saveH.tab

\* C30: at most one file watcher is live: every watcher that has been
\* created and not closed is the one the module references.
C30_OneWatcherLive ==
  \A x \in watch.live : x.id = watch.watcher

\* ------------------------------------------------------------------------
\* Properties of the external merge
\* ------------------------------------------------------------------------
\* the ai:merge call has returned an error, or no merged text
MergeCallFailed ==
  aiH.pc = "done" /\ (aiH.result.error # "" \/ ~Truthy(aiH.result.merged))

\* C23: when handleAiMerge receives the result of a failed ai:merge call, the
\* session (every section's resolved text, the literal parts, the resolved
\* flag) is as before, a non-empty error is shown, loading has ended and no
\* further call is in flight.
C23_FailedMergeKeepsSession ==
  [][(MergeCallFailed /\ aiH'.pc # "done")
       => /\ resolver' = resolver
          /\ activeConflict' = activeConflict
          /\ aiError' # ""
          /\ aiH.result.error # "" => aiError' = aiH.result.error
          /\ aiLoading' = FALSE
          /\ aiH'.pc = "idle"]_vars

\* the handler found no API key in the store (the key was removed after the
\* resolver had loaded its settings); the first section, resolved before the
\* call, is still resolved and the second still open
C23_Witness ==
  /\ aiH.pc = "idle"
  /\ aiH.result = MergeFailed(E_NOKEY)
  /\ aiError = E_NOKEY
  /\ ~aiLoading
  /\ Len(resolver[1].sections) = 2
  /\ resolver[1].sections[1].resolvedContent = <<"b">>
  /\ resolver[1].sections[2].resolvedContent = Null

\* C29: when handleAiMerge receives a merged text, the section the merge was
\* requested for gets it as its resolved text, whichever section is current
\* by then, and every other section keeps its resolved text.
C29_ResponseToRequestedSection ==
  [][(aiH.pc = "done" /\ ~MergeCallFailed /\ aiH'.pc # "done")
       => /\ Len(resolver'[1].sections) = Len(resolver[1].sections)
          /\ \A i \in 1..Len(resolver[1].sections) :
               resolver'[1].sections[i].resolvedContent =
                 IF resolver[1].sections[i].id = aiH.section.id
                   THEN aiH.result.merged
                   ELSE resolver[1].sections[i].resolvedContent]_vars

\* the merge requested for the first section was handled while the second
\* section was current: the first section has the merged text, the second
\* is still open
C29_Witness ==
  /\ aiH.pc = "idle"
  /\ aiH.result.success
  /\ aiH.section.id = resolver[1].sections[1].id
  /\ aiH.handledAt = 1
  /\ currentIndex = 1
  /\ resolver[1].sections[1].resolvedContent = <<"m">>
  /\ resolver[1].sections[2].resolvedContent = Null

====
